---- MODULE Spec2Model ----
(***************************************************************************)
(* Provider abstraction and streaming-normalisation layer of YPrompt:      *)
(* OpenAIProvider (Completions / Responses mode with adaptive retry),      *)
(* OpenAIResponsesProvider (baseline Responses adapter), their non-stream  *)
(* response extraction and their stream-frame decoders.                    *)
(*                                                                         *)
(* JavaScript values are tagged records [t |-> ...]; a string is a         *)
(* sequence of atomic text tokens (whitespace tokens are separate), so     *)
(* concatenation, trim, join, startsWith and includes are computed.        *)
(***************************************************************************)
EXTENDS Integers, Sequences, FiniteSets, TLC

VARIABLES
    config,               \* ProviderConfig of the adapter instance (immutable)
    adapter,              \* class of the instance
    modelId,              \* model id handed to the constructor
    maxTokensParamName,   \* OpenAIProvider's sticky field
    calls,                \* per call slot: position and locals of callAPI
    everCorrected,        \* history: some call applied the parameter correction
    responseData,         \* input of the non-stream extraction under test
    extractOut,           \* its result, per adapter
    frame,                \* input of parseStreamChunk under test
    chunkOut,             \* its result, per adapter
    pending,              \* frames of the open stream that are not yet read
    chunks,               \* results of parseStreamChunk on the frames read so far
    accumulated,          \* text accumulated by the consumer's onChunk
    encIn,                \* input of the request encoders under test
    encOut,               \* their results, per encoder
    component,            \* conversation controller: which component is mounted
    conversation,         \* the controller's messages.value
    isStreaming,          \* the controller's isStreaming.value
    sends,                \* the aiService.send calls issued by the controller
    currentArtifact,      \* the controller's currentArtifact.value
    lastPrefillTimestamp, \* the controller's lastPrefillTimestamp.value
    reader,               \* drawing stream: the reader of response.body
    generator,            \* drawing stream: the generateContentStream generator
    probeIn,              \* input of the response-side functions under test
    probeOut              \* their results

vars == <<config, adapter, modelId, maxTokensParamName, calls, everCorrected,
          responseData, extractOut, frame, chunkOut,
          pending, chunks, accumulated, encIn, encOut,
          component, conversation, isStreaming, sends,
          currentArtifact, lastPrefillTimestamp,
          reader, generator, probeIn, probeOut>>

callVars == <<config, adapter, modelId, maxTokensParamName, calls, everCorrected>>
extractVars == <<responseData, extractOut>>
chunkVars == <<frame, chunkOut>>
streamVars == <<pending, chunks, accumulated>>
encodeVars == <<encIn, encOut>>
controllerVars == <<component, conversation, isStreaming, sends,
                    currentArtifact, lastPrefillTimestamp>>
drawVars == <<reader, generator, probeIn, probeOut>>
auxVars == <<streamVars, encodeVars, controllerVars, drawVars>>

----------------------------------------------------------------------------
(* Bounds *)

MaxSlots == 2          \* call slots that may overlap on one instance
MaxFrameTokens == 3    \* tokens of a non-JSON stream frame

Slots == 1..MaxSlots

----------------------------------------------------------------------------
(* JavaScript values *)

Undef == [t |-> "undefined"]
Null == [t |-> "null"]
Str(s) == [t |-> "string", s |-> s]
Num(n) == [t |-> "number", n |-> n]
Bool(b) == [t |-> "boolean", b |-> b]
Arr(a) == [t |-> "array", a |-> a]

IsStr(v) == v.t = "string"
IsArr(v) == v.t = "array"

Truthy(v) ==
    CASE v.t = "undefined" -> FALSE
      [] v.t = "null" -> FALSE
      [] v.t = "string" -> v.s # <<>>
      [] v.t = "number" -> v.n # 0
      [] v.t = "boolean" -> v.b
      [] OTHER -> TRUE

SP == " "
NL == "\n"
IsWs(tok) == tok \in {SP, NL, "\t"}

RECURSIVE TrimStart(_)
TrimStart(s) == IF s # <<>> /\ IsWs(Head(s)) THEN TrimStart(Tail(s)) ELSE s

RECURSIVE TrimEnd(_)
TrimEnd(s) ==
    IF s # <<>> /\ IsWs(s[Len(s)]) THEN TrimEnd(SubSeq(s, 1, Len(s) - 1)) ELSE s

Trim(s) == TrimEnd(TrimStart(s))

RECURSIVE Join(_, _)
Join(strs, sep) ==
    IF strs = <<>> THEN <<>>
    ELSE IF Len(strs) = 1 THEN strs[1]
    ELSE strs[1] \o sep \o Join(Tail(strs), sep)

Map(seq, F(_)) == [i \in 1..Len(seq) |-> F(seq[i])]

RECURSIVE Flatten(_)
Flatten(seqs) == IF seqs = <<>> THEN <<>> ELSE Head(seqs) \o Flatten(Tail(seqs))

\* String.prototype.toLowerCase on the tokens of the vocabulary
LowerTok(tok) ==
    CASE tok = "Unsupported" -> "unsupported"
      [] tok = "System" -> "system"
      [] tok = "GPT-5" -> "gpt-5"
      [] tok = "O3" -> "o3"
      [] OTHER -> tok

\* String.prototype.toUpperCase on the tokens of the vocabulary
UpperTok(tok) ==
    CASE tok = "processing" -> "PROCESSING"
      [] tok = "openrouter" -> "OPENROUTER"
      [] OTHER -> tok

ToLowerCase(s) == [i \in 1..Len(s) |-> LowerTok(s[i])]
ToUpperCase(s) == [i \in 1..Len(s) |-> UpperTok(s[i])]

\* a token that has the keyword token as a substring
TokContains(tok, kw) ==
    \/ tok = kw
    \/ <<tok, kw>> \in {<<"instructions", "instruction">>,
                        <<"gpt-5-high", "gpt-5">>,
                        <<"o1-mini", "o1">>,
                        <<"o4-mini", "o4">>}

\* String.prototype.includes(kw), kw a sequence of tokens
Includes(s, kw) ==
    \E i \in 1..(Len(s) - Len(kw) + 1) :
        \A j \in 1..Len(kw) : TokContains(s[i + j - 1], kw[j])

StartsWith(s, prefix) ==
    /\ Len(s) >= Len(prefix)
    /\ SubSeq(s, 1, Len(prefix)) = prefix

----------------------------------------------------------------------------
(* Message model *)

NoAttachments == <<>>
Msg(role, content) == [role |-> role, content |-> content, attachments |-> NoAttachments]
TextPart(s) == [type |-> "text", text |-> Str(s), image_url |-> Undef]
UrlObj(u) == [t |-> "object", url |-> u]
ImagePart(u) == [type |-> "image_url", text |-> Undef, image_url |-> UrlObj(u)]

IsSystem(m) == m.role = "system"
NotSystem(m) == m.role # "system"
IsNonEmpty(s) == s # <<>>
IsTextPart(part) == part.type = "text" /\ Truthy(part.text)
PartText(part) == part.text.s

stringifyMessageContent(message) ==
    IF IsStr(message.content) THEN message.content.s
    ELSE IF IsArr(message.content)
         THEN Join(Map(SelectSeq(message.content.a, IsTextPart), PartText), <<NL>>)
         ELSE <<>>

\* variant: the merged message is put in front of all non-system messages
mergeSystemMessages_Duplicating(messages) ==
    LET systemMessages == SelectSeq(messages, IsSystem)
        systemText == Join(SelectSeq(Map(systemMessages, stringifyMessageContent), IsNonEmpty),
                           <<NL, NL>>)
        nonSystemMessages == SelectSeq(messages, NotSystem)
        preamble == <<"System:", NL>> \o systemText
        first == Head(nonSystemMessages)
        merged == Trim(preamble \o <<NL, NL>> \o stringifyMessageContent(first))
    IN  IF systemMessages = <<>> THEN messages
        ELSE IF systemText = <<>> THEN nonSystemMessages
        ELSE IF nonSystemMessages = <<>> THEN <<Msg("user", Str(preamble))>>
        ELSE IF first.role # "user" THEN <<Msg("user", Str(preamble))>> \o nonSystemMessages
        ELSE <<[first EXCEPT !.content = Str(merged)]>> \o nonSystemMessages

\* variant: the system texts are joined by a single newline
mergeSystemMessages_NewlineJoin(messages) ==
    LET systemMessages == SelectSeq(messages, IsSystem)
        systemText == Join(SelectSeq(Map(systemMessages, stringifyMessageContent), IsNonEmpty),
                           <<NL>>)
        nonSystemMessages == SelectSeq(messages, NotSystem)
        preamble == <<"System:", NL>> \o systemText
        first == Head(nonSystemMessages)
        merged == Trim(preamble \o <<NL, NL>> \o stringifyMessageContent(first))
    IN  IF systemMessages = <<>> THEN messages
        ELSE IF systemText = <<>> THEN nonSystemMessages
        ELSE IF nonSystemMessages = <<>> THEN <<Msg("user", Str(preamble))>>
        ELSE IF first.role # "user" THEN <<Msg("user", Str(preamble))>> \o nonSystemMessages
        ELSE <<[first EXCEPT !.content = Str(merged)]>> \o Tail(nonSystemMessages)

\* variant: with no system text to merge, the list is returned as it came
mergeSystemMessages_EarlyReturn(messages) ==
    LET systemMessages == SelectSeq(messages, IsSystem)
        systemText == Join(SelectSeq(Map(systemMessages, stringifyMessageContent), IsNonEmpty),
                           <<NL, NL>>)
        nonSystemMessages == SelectSeq(messages, NotSystem)
        preamble == <<"System:", NL>> \o systemText
        first == Head(nonSystemMessages)
        merged == Trim(preamble \o <<NL, NL>> \o stringifyMessageContent(first))
    IN  IF systemMessages = <<>> \/ systemText = <<>> THEN messages
        ELSE IF nonSystemMessages = <<>> THEN <<Msg("user", Str(preamble))>>
        ELSE IF first.role # "user" THEN <<Msg("user", Str(preamble))>> \o nonSystemMessages
        ELSE <<[first EXCEPT !.content = Str(merged)]>> \o Tail(nonSystemMessages)

\* variant: the merge leaves the list as it is
mergeSystemMessages_Unmerged(messages) == messages

mergeSystemMessages(messages) ==
    LET systemMessages == SelectSeq(messages, IsSystem)
        systemText == Join(SelectSeq(Map(systemMessages, stringifyMessageContent), IsNonEmpty),
                           <<NL, NL>>)
        nonSystemMessages == SelectSeq(messages, NotSystem)
        preamble == <<"System:", NL>> \o systemText
        first == Head(nonSystemMessages)
        merged == Trim(preamble \o <<NL, NL>> \o stringifyMessageContent(first))
    IN  IF systemMessages = <<>> THEN messages
        ELSE IF systemText = <<>> THEN nonSystemMessages
        ELSE IF nonSystemMessages = <<>> THEN <<Msg("user", Str(preamble))>>
        ELSE IF first.role # "user" THEN <<Msg("user", Str(preamble))>> \o nonSystemMessages
        ELSE <<[first EXCEPT !.content = Str(merged)]>> \o Tail(nonSystemMessages)

hasMultimodalContent(message) == Len(message.attachments) > 0

\* OpenAIAttachmentHandler.convertAttachments: one image_url part (a data URL)
\* per image attachment and one text part per document attachment, in order;
\* an attachment of any other type yields no part
IsImageAttachment(att) == att.type = "image"
IsConvertible(att) == att.type \in {"image", "document"}
AttachmentPart(att) ==
    IF IsImageAttachment(att)
    THEN ImagePart(Str(<<"data:", att.mimeType, ";base64,", att.data>>))
    ELSE TextPart(<<"[document]", NL, att.data>>)
convertAttachments(attachments) == Map(SelectSeq(attachments, IsConvertible), AttachmentPart)

convertToMultimodalContent(message) ==
    (IF IsStr(message.content) /\ Trim(message.content.s) # <<>>
     THEN <<TextPart(message.content.s)>> ELSE <<>>)
    \o convertAttachments(message.attachments)

----------------------------------------------------------------------------
(* Request bodies.  Decimal controls are held in hundredths (1.0 is 100). *)

NoFields == [x \in {} |-> 0]
GetOr(params, name, default) == IF name \in DOMAIN params THEN params[name] ELSE default
OptField(params, name, field) ==
    IF name \in DOMAIN params THEN (field :> params[name]) ELSE NoFields

CompletionsMessage(msg) ==
    IF hasMultimodalContent(msg)
    THEN [role |-> msg.role, content |-> Arr(convertToMultimodalContent(msg))]
    ELSE [role |-> msg.role,
          content |-> IF IsStr(msg.content) THEN msg.content
                      ELSE IF msg.content.a # <<>> /\ Truthy(msg.content.a[1].text)
                           THEN msg.content.a[1].text
                           ELSE Str(<<>>)]

\* variant: the token limit is always sent as max_tokens
buildRequestBody_FixedName(messages, stream, params, maxTokensParam) ==
    [api |-> "chat/completions",
     model |-> modelId,
     messages |-> Map(messages, CompletionsMessage),
     instructions |-> Undef,
     reasoning |-> Undef,
     stream |-> stream,
     fields |-> ("temperature" :> GetOr(params, "temperature", 100))
                @@ ("top_p" :> GetOr(params, "topP", 95))
                @@ OptField(params, "frequencyPenalty", "frequency_penalty")
                @@ OptField(params, "presencePenalty", "presence_penalty")
                @@ ("max_tokens" :> GetOr(params, "maxTokens", 8192))]

buildRequestBody(messages, stream, params, maxTokensParam) ==
    [api |-> "chat/completions",
     model |-> modelId,
     messages |-> Map(messages, CompletionsMessage),
     instructions |-> Undef,
     reasoning |-> Undef,
     stream |-> stream,
     fields |-> ("temperature" :> GetOr(params, "temperature", 100))
                @@ ("top_p" :> GetOr(params, "topP", 95))
                @@ OptField(params, "frequencyPenalty", "frequency_penalty")
                @@ OptField(params, "presencePenalty", "presence_penalty")
                @@ (maxTokensParam :> GetOr(params, "maxTokens", 8192))]

InputTextPart(part) == [type |-> "input_text", text |-> part.text, image_url |-> Undef]
IsUsableImage(part) ==
    /\ part.type = "image_url"
    /\ Truthy(part.image_url)
    /\ Truthy(IF IsStr(part.image_url) THEN part.image_url ELSE part.image_url.url)
InputImageOfUrl(part) ==
    [type |-> "input_image", text |-> Undef,
     image_url |-> IF IsStr(part.image_url) THEN part.image_url ELSE part.image_url.url]

convertToResponsesContent(message) ==
    (IF IsStr(message.content) /\ Trim(message.content.s) # <<>>
     THEN <<[type |-> "input_text", text |-> message.content, image_url |-> Undef]>>
     ELSE IF IsArr(message.content)
          THEN Map(SelectSeq(message.content.a, IsTextPart), InputTextPart)
          ELSE <<>>)
    \o Map(SelectSeq(convertAttachments(message.attachments), IsUsableImage), InputImageOfUrl)

ResponsesInputMessage(msg) ==
    IF hasMultimodalContent(msg)
    THEN [role |-> msg.role, content |-> Arr(convertToResponsesContent(msg))]
    ELSE [role |-> msg.role, content |-> Str(stringifyMessageContent(msg))]

\* variant: the system messages stay in the input list
buildResponsesInput_KeepSystem(messages) ==
    [instructions |-> Join(SelectSeq(Map(SelectSeq(messages, IsSystem), stringifyMessageContent),
                                     IsNonEmpty), <<NL, NL>>),
     input |-> Map(messages, ResponsesInputMessage)]

buildResponsesInput(messages) ==
    [instructions |-> Join(SelectSeq(Map(SelectSeq(messages, IsSystem), stringifyMessageContent),
                                     IsNonEmpty), <<NL, NL>>),
     input |-> Map(SelectSeq(messages, NotSystem), ResponsesInputMessage)]

buildResponsesRequestBody(messages, stream, params, maxTokensParam) ==
    LET ri == buildResponsesInput(messages)
    IN  [api |-> "responses",
         model |-> modelId,
         messages |-> ri.input,
         instructions |-> IF ri.instructions # <<>> THEN Str(ri.instructions) ELSE Undef,
         reasoning |-> Undef,
         stream |-> stream,
         fields |-> ("temperature" :> GetOr(params, "temperature", 100))
                    @@ ("top_p" :> GetOr(params, "topP", 95))
                    @@ OptField(params, "frequencyPenalty", "frequency_penalty")
                    @@ OptField(params, "presencePenalty", "presence_penalty")
                    @@ ("max_output_tokens" :> GetOr(params, "maxTokens", 8192))]

\* OpenAIResponsesProvider
RespMapPart(part) ==
    IF part.type = "text"
    THEN [type |-> "input_text",
          text |-> IF Truthy(part.text) THEN part.text ELSE Str(<<>>),
          image_url |-> Undef]
    ELSE IF part.type = "image_url" /\ Truthy(part.image_url) /\ Truthy(part.image_url.url)
         THEN [type |-> "input_image", text |-> Undef, image_url |-> part.image_url]
         ELSE part

RespConvertToResponsesContent(message) ==
    Map((IF IsStr(message.content) /\ Trim(message.content.s) # <<>>
         THEN <<TextPart(message.content.s)>> ELSE <<>>)
        \o convertAttachments(message.attachments), RespMapPart)

formatMessageContent(message) ==
    IF hasMultimodalContent(message) THEN Arr(RespConvertToResponsesContent(message))
    ELSE IF IsStr(message.content) THEN message.content
    ELSE Arr(Map(message.content.a, RespMapPart))

RespInputMessage(message) == [role |-> message.role, content |-> formatMessageContent(message)]

RespBuildRequestBody(messages, stream, params, effort) ==
    [api |-> "responses",
     model |-> modelId,
     messages |-> Map(messages, RespInputMessage),
     instructions |-> Undef,
     reasoning |-> IF Truthy(effort) THEN effort ELSE Undef,
     stream |-> stream,
     fields |-> OptField(params, "temperature", "temperature")
                @@ OptField(params, "topP", "top_p")
                @@ OptField(params, "maxTokens", "max_output_tokens")]

----------------------------------------------------------------------------
(* OpenAIProvider: construction, URL, timeout, retry signatures *)

requiresCompletionTokens(id) ==
    LET normalized == ToLowerCase(id)
    IN  \E keyword \in {"gpt-5", "o1", "o3", "o4", "reasoning"} :
            Includes(normalized, <<keyword>>)

\* variant: the keyword heuristic is consulted before the configuration
resolveInitialMaxTokensParam_HeuristicFirst(configuredParam, id) ==
    IF requiresCompletionTokens(id) THEN "max_completion_tokens"
    ELSE IF configuredParam # "" THEN configuredParam ELSE "max_tokens"

\* configuredParam is "" when the model has no configured capability
resolveInitialMaxTokensParam(configuredParam, id) ==
    IF configuredParam # "" THEN configuredParam
    ELSE IF requiresCompletionTokens(id) THEN "max_completion_tokens" ELSE "max_tokens"

isResponsesApiUrl(baseUrl) == Includes(baseUrl, <<"/responses">>)

RECURSIVE StripTrailingSlashes(_)
StripTrailingSlashes(s) ==
    IF s # <<>> /\ s[Len(s)] = "/" THEN StripTrailingSlashes(SubSeq(s, 1, Len(s) - 1)) ELSE s

ResolveApiUrl(baseUrl) ==
    LET apiUrl == Trim(baseUrl)
    IN  IF isResponsesApiUrl(apiUrl) THEN StripTrailingSlashes(apiUrl)
        ELSE IF Includes(apiUrl, <<"/chat/completions">>) THEN apiUrl
        ELSE IF Includes(apiUrl, <<"/v1">>)
             THEN StripTrailingSlashes(apiUrl) \o <<"/chat/completions">>
             ELSE StripTrailingSlashes(apiUrl) \o <<"/v1", "/chat/completions">>

RespResolveApiUrl(baseUrl) ==
    LET apiUrl == Trim(baseUrl)
    IN  IF Includes(apiUrl, <<"/responses">>) THEN apiUrl
        ELSE IF Includes(apiUrl, <<"/v1">>) THEN StripTrailingSlashes(apiUrl) \o <<"/responses">>
        ELSE StripTrailingSlashes(apiUrl) \o <<"/v1", "/responses">>

TimeoutMs(id) ==
    IF Includes(id, <<"gpt-5">>) \/ Includes(id, <<"o1">>) \/ Includes(id, <<"thinking">>)
    THEN 600000 ELSE 300000

EmptyObj == [t |-> "object", error |-> Undef]
ErrObj(e) == [t |-> "object", error |-> e]
ErrInfo(code, param, message) ==
    [t |-> "object", code |-> code, param |-> param, message |-> message]

\* errorData?.error?.message lower-cased, '' when it is not a string
LowerErrorMessage(errorData) ==
    LET errorInfo == errorData.error
    IN  IF errorInfo.t = "object" /\ IsStr(errorInfo.message)
        THEN ToLowerCase(errorInfo.message.s) ELSE <<>>

\* variant: the guard on the current parameter name is missing
shouldRetryWithCompletionTokens_NoGuard(errorData, currentParam) ==
    LET errorInfo == errorData.error
        message == LowerErrorMessage(errorData)
    IN  /\ Truthy(errorInfo)
        /\ message # <<>>
        /\ \/ errorInfo.code = Str(<<"unsupported_parameter">>)
           \/ Includes(message, <<"unsupported", SP, "parameter">>)
        /\ Includes(message, <<"max_tokens">>)
        /\ Includes(message, <<"max_completion_tokens">>)
        /\ (~Truthy(errorInfo.param) \/ errorInfo.param = Str(<<"max_tokens">>))

\* variant: only a rejection that names the parameter in error.param counts
shouldRetryWithCompletionTokens_StrictParam(errorData, currentParam) ==
    LET errorInfo == errorData.error
        message == LowerErrorMessage(errorData)
    IN  /\ currentParam # "max_completion_tokens"
        /\ Truthy(errorInfo)
        /\ message # <<>>
        /\ \/ errorInfo.code = Str(<<"unsupported_parameter">>)
           \/ Includes(message, <<"unsupported", SP, "parameter">>)
        /\ Includes(message, <<"max_tokens">>)
        /\ Includes(message, <<"max_completion_tokens">>)
        /\ errorInfo.param = Str(<<"max_tokens">>)

shouldRetryWithCompletionTokens(errorData, currentParam) ==
    LET errorInfo == errorData.error
        message == LowerErrorMessage(errorData)
    IN  /\ currentParam # "max_completion_tokens"
        /\ Truthy(errorInfo)
        /\ message # <<>>
        /\ \/ errorInfo.code = Str(<<"unsupported_parameter">>)
           \/ Includes(message, <<"unsupported", SP, "parameter">>)
        /\ Includes(message, <<"max_tokens">>)
        /\ Includes(message, <<"max_completion_tokens">>)
        /\ (~Truthy(errorInfo.param) \/ errorInfo.param = Str(<<"max_tokens">>))

HasSystem(messages) == \E i \in 1..Len(messages) : messages[i].role = "system"

shouldRetryWithoutSystemRole(errorData, messages) ==
    LET message == LowerErrorMessage(errorData)
    IN  /\ HasSystem(messages)
        /\ message # <<>>
        /\ Includes(message, <<"system">>)
        /\ \/ Includes(message, <<"unsupported">>)
           \/ Includes(message, <<"not", SP, "supported">>)
           \/ Includes(message, <<"not", SP, "allowed">>)
           \/ Includes(message, <<"invalid">>)
           \/ Includes(message, <<"role">>)

shouldRetryWithoutInstructions(errorData, messages) ==
    LET message == LowerErrorMessage(errorData)
    IN  /\ HasSystem(messages)
        /\ message # <<>>
        /\ \/ Includes(message, <<"instruction">>)
           \/ /\ Includes(message, <<"system">>)
              /\ \/ Includes(message, <<"unsupported">>)
                 \/ Includes(message, <<"not", SP, "supported">>)
                 \/ Includes(message, <<"not", SP, "allowed">>)
                 \/ Includes(message, <<"invalid">>)

----------------------------------------------------------------------------
(* Non-streaming response extraction *)

NonBlankStr(v) == IsStr(v) /\ Trim(v.s) # <<>>

ContentHit(c) == NonBlankStr(c.text) \/ NonBlankStr(c.output_text)
ContentValue(c) == IF NonBlankStr(c.text) THEN c.text ELSE c.output_text
ItemHits(item) == IF IsArr(item.content) THEN SelectSeq(item.content.a, ContentHit) ELSE <<>>

VisibleTextPart(part) == Truthy(part.text) /\ ~part.thought

FirstChoiceContent(d) ==
    IF IsArr(d.choices) /\ d.choices.a # <<>> THEN d.choices.a[1].content ELSE Undef
FirstChoiceFinish(d) ==
    IF IsArr(d.choices) /\ d.choices.a # <<>> THEN d.choices.a[1].finish_reason ELSE Undef
FirstCandidateParts(d) ==
    IF IsArr(d.candidates) /\ d.candidates.a # <<>> THEN d.candidates.a[1].parts ELSE Undef

\* the else-if chain of callAPI: the value of `result` after it
ExtractRaw(d) ==
    IF Truthy(d.choices) /\ Truthy(FirstChoiceContent(d)) THEN FirstChoiceContent(d)
    ELSE IF IsStr(d.output_text) THEN d.output_text
    ELSE IF IsArr(d.output)
         THEN LET hits == Flatten(Map(d.output.a, ItemHits))
              IN  IF hits = <<>> THEN Undef ELSE ContentValue(hits[1])
    ELSE IF Truthy(d.candidates) /\ Truthy(FirstCandidateParts(d))
         THEN LET visible == SelectSeq(FirstCandidateParts(d).a, VisibleTextPart)
              IN  IF visible = <<>> THEN Undef ELSE visible[1].text
    ELSE IF Truthy(d.content) /\ IsStr(d.content) THEN d.content
    ELSE IF Truthy(d.text) /\ IsStr(d.text) THEN d.text
    ELSE Undef

\* ResponseCleaner.cleanResponse / cleanThinkTags: drop <think>...</think> regions
RECURSIVE cleanThinkTags(_)
cleanThinkTags(s) ==
    IF \E i \in 1..Len(s) : s[i] = "<think>" /\ \E j \in (i + 1)..Len(s) : s[j] = "</think>"
    THEN LET i == CHOOSE k \in 1..Len(s) :
                      /\ s[k] = "<think>"
                      /\ \E j \in (k + 1)..Len(s) : s[j] = "</think>"
                      /\ \A m \in 1..(k - 1) : s[m] # "<think>"
             j == CHOOSE k \in (i + 1)..Len(s) :
                      s[k] = "</think>" /\ \A m \in (i + 1)..(k - 1) : s[m] # "</think>"
         IN  cleanThinkTags(SubSeq(s, 1, i - 1) \o SubSeq(s, j + 1, Len(s)))
    ELSE s

ExtractResult(d) ==
    LET result == ExtractRaw(d)
    IN  IF ~Truthy(result) \/ Trim(result.s) = <<>>
        THEN [kind |-> "EmptyResponseError"]
        ELSE [kind |-> "response",
              content |-> cleanThinkTags(result.s),
              finishReason |-> FirstChoiceFinish(d)]

\* OpenAIResponsesProvider.extractResponseText
IsOutputTextPart(part) == part.type = "output_text" /\ IsStr(part.text)
ItemOutputTexts(item) ==
    IF IsArr(item.content) THEN Map(SelectSeq(item.content.a, IsOutputTextPart), PartText)
    ELSE <<>>

extractResponseText(d) ==
    LET texts == IF IsArr(d.output) THEN Flatten(Map(d.output.a, ItemOutputTexts)) ELSE <<>>
    IN  IF IsStr(d.output_text) THEN d.output_text.s
        ELSE IF texts # <<>> THEN Flatten(texts)
        ELSE IF Truthy(FirstChoiceContent(d)) THEN FirstChoiceContent(d).s
        ELSE IF Truthy(d.content) /\ IsStr(d.content) THEN d.content.s
        ELSE <<>>

RespExtractResult(d) ==
    LET result == extractResponseText(d)
    IN  IF result = <<>> \/ Trim(result) = <<>>
        THEN [kind |-> "EmptyResponseError"]
        ELSE [kind |-> "response",
              content |-> cleanThinkTags(result),
              finishReason |-> d.finish_reason]

----------------------------------------------------------------------------
(* callAPI *)

Unparsable == [t |-> "unparsable"]

IdleCall ==
    [pc |-> "idle", messages |-> <<>>, stream |-> FALSE, params |-> NoFields, effort |-> Undef,
     currentMaxTokensParam |-> "max_tokens", requestMessages |-> <<>>,
     requests |-> <<>>, responses |-> <<>>, result |-> [kind |-> "none"],
     nParamFix |-> 0, nMerge |-> 0, decisions |-> <<>>, startedAfterFix |-> FALSE]

useResponsesApi == isResponsesApiUrl(Trim(config.baseUrl.s))

Authorization ==
    <<"Bearer", SP>> \o (IF IsStr(config.apiKey) THEN config.apiKey.s ELSE <<"undefined">>)

\* the fetchWithTimeout call of one attempt of OpenAIProvider.callAPI
Request(requestMessages, stream, params, currentMaxTokensParam) ==
    [url |-> ResolveApiUrl(config.baseUrl.s),
     authorization |-> Authorization,
     timeoutMs |-> TimeoutMs(modelId),
     body |-> IF useResponsesApi
              THEN buildResponsesRequestBody(requestMessages, stream, params, currentMaxTokensParam)
              ELSE buildRequestBody(requestMessages, stream, params, currentMaxTokensParam)]

\* the fetchWithTimeout call of OpenAIResponsesProvider.callAPI
RespRequest(messages, stream, params, effort) ==
    [url |-> RespResolveApiUrl(config.baseUrl.s),
     authorization |-> Authorization,
     timeoutMs |-> TimeoutMs(modelId),
     body |-> RespBuildRequestBody(messages, stream, params, effort)]

HttpResponse(ok, status, body) == [kind |-> "http", ok |-> ok, status |-> status, body |-> body]
Rejection == [kind |-> "reject", ok |-> FALSE, status |-> 0, body |-> Unparsable]

\* variant: the parsed error body is not attached to the error
UpstreamError_NoBody(status, errorData) ==
    [kind |-> "UpstreamError", status |-> status, error |-> EmptyObj]

\* variant: the status of the answer is not attached to the error
UpstreamError_NoStatus(status, errorData) ==
    [kind |-> "UpstreamError", status |-> 0, error |-> errorData]

UpstreamError(status, errorData) ==
    [kind |-> "UpstreamError", status |-> status, error |-> errorData]

\* variant: the correction is kept in the local only
PersistCorrection_LocalOnly(field) == field

\* this.maxTokensParamName = 'max_completion_tokens' on the parameter correction
PersistCorrection(field) == "max_completion_tokens"

\* entry of callAPI up to its first await
StartCall(c, messages, stream, params, effort) ==
    /\ calls[c].pc # "awaiting"
    /\ LET fresh == [IdleCall EXCEPT !.messages = messages, !.stream = stream,
                                     !.params = params, !.effort = effort,
                                     !.startedAfterFix = everCorrected]
       IN  calls' = [calls EXCEPT ![c] =
               IF ~Truthy(config.baseUrl)
               THEN [fresh EXCEPT !.pc = "thrown", !.result = [kind |-> "ConfigError"]]
               ELSE IF adapter = "OpenAIProvider"
               THEN [fresh EXCEPT !.pc = "awaiting",
                                  !.currentMaxTokensParam = maxTokensParamName,
                                  !.requestMessages = messages,
                                  !.requests = <<Request(messages, stream, params,
                                                         maxTokensParamName)>>]
               ELSE [fresh EXCEPT !.pc = "awaiting",
                                  !.requestMessages = messages,
                                  !.requests = <<RespRequest(messages, stream, params, effort)>>]]
    /\ UNCHANGED <<config, adapter, modelId, maxTokensParamName, everCorrected>>
    /\ UNCHANGED <<extractVars, chunkVars, auxVars>>

\* fetchWithTimeout rejects (timeout or transport failure): callAPI rejects with it
FetchRejected(c) ==
    /\ calls[c].pc = "awaiting"
    /\ calls' = [calls EXCEPT ![c].pc = "thrown",
                              ![c].responses = Append(@, Rejection),
                              ![c].decisions = Append(@, "throw"),
                              ![c].result = [kind |-> "TransportError"]]
    /\ UNCHANGED <<config, adapter, modelId, maxTokensParamName, everCorrected>>
    /\ UNCHANGED <<extractVars, chunkVars, auxVars>>

\* the attempt resolves with a non-success status
ErrorResponse(c, status, body) ==
    /\ calls[c].pc = "awaiting"
    /\ LET call == calls[c]
           errorData == IF body = Unparsable THEN EmptyObj ELSE body
           seen == [call EXCEPT !.responses = Append(@, HttpResponse(FALSE, status, body))]
       IN  IF adapter = "OpenAIProvider"
              /\ shouldRetryWithCompletionTokens(errorData, call.currentMaxTokensParam)
           THEN /\ calls' = [calls EXCEPT ![c] =
                       [seen EXCEPT !.currentMaxTokensParam = "max_completion_tokens",
                                    !.nParamFix = @ + 1,
                                    !.decisions = Append(@, "paramfix"),
                                    !.requests = Append(@, Request(call.requestMessages,
                                        call.stream, call.params, "max_completion_tokens"))]]
                /\ maxTokensParamName' = PersistCorrection(maxTokensParamName)
                /\ everCorrected' = TRUE
           ELSE IF adapter = "OpenAIProvider"
                   /\ IF useResponsesApi
                      THEN shouldRetryWithoutInstructions(errorData, call.requestMessages)
                      ELSE shouldRetryWithoutSystemRole(errorData, call.requestMessages)
           THEN /\ calls' = [calls EXCEPT ![c] =
                       [seen EXCEPT !.requestMessages = mergeSystemMessages(call.requestMessages),
                                    !.nMerge = @ + 1,
                                    !.decisions = Append(@, "merge"),
                                    !.requests = Append(@,
                                        Request(mergeSystemMessages(call.requestMessages),
                                                call.stream, call.params,
                                                call.currentMaxTokensParam))]]
                /\ UNCHANGED <<maxTokensParamName, everCorrected>>
           ELSE /\ calls' = [calls EXCEPT ![c] =
                       [seen EXCEPT !.pc = "thrown",
                                    !.decisions = Append(@, "throw"),
                                    !.result = UpstreamError(status, errorData)]]
                /\ UNCHANGED <<maxTokensParamName, everCorrected>>
    /\ UNCHANGED <<config, adapter, modelId>>
    /\ UNCHANGED <<extractVars, chunkVars, auxVars>>

\* the attempt resolves with a success status; the await of response.json()
\* that follows the write of line 95 touches no shared state, so the handler
\* is one step
SuccessResponse(c, body) ==
    /\ calls[c].pc = "awaiting"
    /\ LET call == calls[c]
           seen == [call EXCEPT !.responses = Append(@, HttpResponse(TRUE, 200, body))]
           outcome == IF call.stream THEN [kind |-> "stream"]
                      ELSE IF body = Unparsable THEN [kind |-> "SyntaxError"]
                      ELSE IF adapter = "OpenAIProvider" THEN ExtractResult(body)
                      ELSE RespExtractResult(body)
       IN  /\ calls' = [calls EXCEPT ![c] =
                  [seen EXCEPT !.pc = IF outcome.kind \in {"stream", "response"}
                                      THEN "returned" ELSE "thrown",
                               !.decisions = Append(@, IF outcome.kind \in {"stream", "response"}
                                                       THEN "return" ELSE "throw"),
                               !.result = outcome]]
           /\ maxTokensParamName' = IF adapter = "OpenAIProvider"
                                    THEN call.currentMaxTokensParam
                                    ELSE maxTokensParamName
    /\ UNCHANGED <<config, adapter, modelId, everCorrected>>
    /\ UNCHANGED <<extractVars, chunkVars, auxVars>>

----------------------------------------------------------------------------
(* Inputs *)

T(tok) == Str(<<tok>>)

BaseUrls ==
    {Undef,
     Str(<<"https://h", "/">>),
     Str(<<"https://h", "/v1", "/chat/completions">>),
     Str(<<"https://h", "/v1", "/responses">>)}

ApiKeys == {Undef, T("sk-key")}

\* <<model id, configured capability ("" when absent)>>
Instances ==
    {<<<<"gpt-4o">>, "">>,
     <<<<"GPT-5">>, "">>,
     <<<<"o1-mini">>, "max_tokens">>}

ImageAttachment == [type |-> "image", mimeType |-> "image/png", data |-> "AAA="]

MessageLists ==
    {<<Msg("user", T("hi"))>>,
     <<Msg("system", T("be brief")), Msg("user", T("hi"))>>,
     <<Msg("system", Str(<<>>)), Msg("model", T("ok")),
       [Msg("user", Str(<<>>)) EXCEPT !.attachments = <<ImageAttachment>>]>>}

ParamSets == {NoFields, [maxTokens |-> 256]}

ErrorStatuses == {400, 500}

ParamMessage ==
    Str(<<"Unsupported", SP, "parameter", SP, "max_tokens", SP, "max_completion_tokens">>)
BothMessage ==
    Str(<<"Unsupported", SP, "parameter", SP, "max_tokens", SP, "max_completion_tokens",
          SP, "System", SP, "instructions">>)

ErrorBodies ==
    {Unparsable,
     ErrObj(T("bad request")),
     ErrObj(ErrInfo(Undef, T("max_tokens"), ParamMessage)),
     ErrObj(ErrInfo(T("unsupported_parameter"), Undef,
                    Str(<<"max_tokens", SP, "max_completion_tokens">>))),
     ErrObj(ErrInfo(T("unsupported_parameter"), T("temperature"), ParamMessage)),
     ErrObj(ErrInfo(Undef, Undef, Str(<<"System", SP, "role", SP, "not", SP, "supported">>))),
     ErrObj(ErrInfo(Undef, Undef, Str(<<"system", SP, "role">>))),
     ErrObj(ErrInfo(Undef, Undef, Str(<<"Unsupported", SP, "parameter", SP, "instructions">>))),
     ErrObj(ErrInfo(Undef, Undef, BothMessage)),
     ErrObj(ErrInfo(Undef, Undef, Str(<<"rate", SP, "limit">>)))}

MkData(choices, output_text, output, candidates, content, text) ==
    [t |-> "object", choices |-> choices, output_text |-> output_text, output |-> output,
     candidates |-> candidates, content |-> content, text |-> text, finish_reason |-> Undef]

Choice(content, finish) == Arr(<<[content |-> content, finish_reason |-> finish]>>)

NoData == MkData(Undef, Undef, Undef, Undef, Undef, Undef)

OkBodies ==
    {Unparsable,
     NoData,
     MkData(Choice(Str(<<"<think>", "plan", "</think>", "hello">>), T("stop")),
            Undef, Undef, Undef, Undef, Undef),
     MkData(Undef, Str(<<>>), Undef, Undef, T("hello"), Undef)}

NotRun == [kind |-> "none"]
NoFrame == [text |-> <<>>, json |-> Undef]

\* values of the parts of the state a specification does not exercise
StreamIdle == pending = <<>> /\ chunks = <<>> /\ accumulated = <<>>
EncodeIdle == encIn = NotRun /\ encOut = NotRun
ControllerIdle ==
    /\ component = "none"
    /\ conversation = <<>>
    /\ isStreaming = FALSE
    /\ sends = <<>>
    /\ currentArtifact = Null
    /\ lastPrefillTimestamp = 0
DrawIdle ==
    /\ reader = NotRun
    /\ generator = NotRun
    /\ probeIn = NotRun
    /\ probeOut = NotRun

----------------------------------------------------------------------------
(* Calls on one adapter instance *)

InitInstance ==
    /\ config \in [baseUrl : BaseUrls, apiKey : ApiKeys]
    /\ adapter \in {"OpenAIProvider", "OpenAIResponsesProvider"}
    /\ \E inst \in Instances :
           /\ modelId = inst[1]
           /\ maxTokensParamName = resolveInitialMaxTokensParam(inst[2], inst[1])
    /\ calls = [c \in Slots |-> IdleCall]
    /\ everCorrected = FALSE

Init ==
    /\ InitInstance
    /\ responseData = NoData
    /\ extractOut = [openai |-> NotRun, responses |-> NotRun]
    /\ frame = NoFrame
    /\ chunkOut = [openai |-> NotRun, responses |-> NotRun]
    /\ StreamIdle /\ EncodeIdle /\ ControllerIdle /\ DrawIdle

\* the caller awaits each call before it issues the next one
Next ==
    \/ \E messages \in MessageLists, stream \in BOOLEAN, params \in ParamSets :
           StartCall(1, messages, stream, params, Undef)
    \/ FetchRejected(1)
    \/ \E status \in ErrorStatuses, body \in ErrorBodies : ErrorResponse(1, status, body)
    \/ \E body \in OkBodies : SuccessResponse(1, body)

Spec == Init /\ [][Next]_vars

\* calls on the same instance overlap
ConcMessageLists == {<<Msg("system", T("be brief")), Msg("user", T("hi"))>>}
ConcErrorBodies ==
    {ErrObj(ErrInfo(Undef, T("max_tokens"), ParamMessage)),
     ErrObj(ErrInfo(Undef, Undef, Str(<<"system", SP, "role">>))),
     ErrObj(ErrInfo(Undef, Undef, Str(<<"rate", SP, "limit">>)))}

NextConc ==
    \E c \in Slots :
        \/ \E messages \in ConcMessageLists : StartCall(c, messages, TRUE, NoFields, Undef)
        \/ FetchRejected(c)
        \/ \E body \in ConcErrorBodies : ErrorResponse(c, 400, body)
        \/ SuccessResponse(c, Unparsable)

SpecConc == Init /\ [][NextConc]_vars

----------------------------------------------------------------------------
(* Non-streaming extraction over a domain of response shapes *)

TextValues(tag) == {Undef, Str(<<>>), Str(<<SP>>), T(tag)}

OutPart(type, text, output_text) == [type |-> type, text |-> text, output_text |-> output_text]
OutItem(content) == [content |-> content]

OutputShapes ==
    {Undef,
     Arr(<<>>),
     Arr(<<OutItem(Arr(<<OutPart("reasoning", Undef, Undef)>>))>>),
     Arr(<<OutItem(Undef), OutItem(Arr(<<OutPart("output_text", T("out"), Undef)>>))>>),
     Arr(<<OutItem(Arr(<<OutPart("refusal", Str(<<SP>>), T("out2"))>>))>>)}

GemPart(text, thought) == [text |-> text, thought |-> thought]
Candidate(parts) == Arr(<<[parts |-> parts]>>)

CandidateShapes ==
    {Undef,
     Candidate(Arr(<<GemPart(T("reasoning"), TRUE)>>)),
     Candidate(Arr(<<GemPart(T("reasoning"), TRUE), GemPart(T("gem"), FALSE)>>)),
     Candidate(Arr(<<>>))}

ChoiceShapes ==
    {Undef, Arr(<<>>)} \cup {Choice(c, T("stop")) : c \in TextValues("chat") \ {Undef}}

ExtractDomain ==
    {MkData(ch, ot, out, cand, co, tx) :
        ch \in ChoiceShapes, ot \in TextValues("ot"), out \in OutputShapes,
        cand \in CandidateShapes, co \in TextValues("content"), tx \in TextValues("text")}

InitExtract ==
    /\ config = [baseUrl |-> Str(<<"https://h", "/">>), apiKey |-> T("sk-key")]
    /\ adapter = "OpenAIProvider"
    /\ modelId = <<"gpt-4o">>
    /\ maxTokensParamName = "max_tokens"
    /\ calls = [c \in Slots |-> IdleCall]
    /\ everCorrected = FALSE
    /\ responseData \in ExtractDomain
    /\ extractOut = [openai |-> NotRun, responses |-> NotRun]
    /\ frame = NoFrame
    /\ chunkOut = [openai |-> NotRun, responses |-> NotRun]
    /\ StreamIdle /\ EncodeIdle /\ ControllerIdle /\ DrawIdle

\* the non-stream branch of OpenAIProvider.callAPI on a success body
ExtractOpenAI ==
    /\ extractOut.openai = NotRun
    /\ extractOut' = [extractOut EXCEPT !.openai = ExtractResult(responseData)]
    /\ UNCHANGED <<callVars, responseData, chunkVars, auxVars>>

\* the non-stream branch of OpenAIResponsesProvider.callAPI on a success body
ExtractResponses ==
    /\ extractOut.responses = NotRun
    /\ extractOut' = [extractOut EXCEPT !.responses = RespExtractResult(responseData)]
    /\ UNCHANGED <<callVars, responseData, chunkVars, auxVars>>

NextExtract == ExtractOpenAI \/ ExtractResponses

SpecExtract == InitExtract /\ [][NextExtract]_vars

----------------------------------------------------------------------------
(* Stream frames.  A frame is its text, token by token; the token "{json}"  *)
(* stands for a well-formed JSON document, whose value is the json field.   *)

JSONDOC == "{json}"
Frame(text, json) == [text |-> text, json |-> json]

Obj(type, delta, text, choices, candidates, done) ==
    [t |-> "object", type |-> type, delta |-> delta, text |-> text,
     choices |-> choices, candidates |-> candidates, done |-> done]

DeltaObj(text) == [t |-> "object", text |-> text]

TypeValues ==
    {Undef, T("response.output_text.delta"), T("response.output_text.done"),
     T("response.completed"), T("ping"), Num(7)}
DeltaValues == {Undef, Str(<<>>), T("d"), DeltaObj(T("dt")), DeltaObj(Undef)}
TextFieldValues == {Undef, Str(<<>>), T("t")}
StreamChoices ==
    {Undef, Arr(<<>>)}
    \cup {Choice(c, f) : c \in {Undef, Str(<<>>), T("c")}, f \in {Null, T("stop")}}
StreamCandidates ==
    {Undef,
     Candidate(Arr(<<>>)),
     Candidate(Arr(<<GemPart(T("reasoning"), TRUE)>>)),
     Candidate(Arr(<<GemPart(T("reasoning"), TRUE), GemPart(T("gem"), FALSE)>>)),
     Candidate(Num(3)),
     Candidate(Arr(<<Null>>))}
DoneValues == {Undef, Bool(TRUE), Bool(FALSE)}

JsonObjects ==
    {Obj(ty, de, tx, ch, ca, dn) :
        ty \in TypeValues, de \in DeltaValues, tx \in TextFieldValues,
        ch \in StreamChoices, ca \in StreamCandidates, dn \in DoneValues}

JsonValues == {Null, Num(5), T("plain"), Bool(TRUE)} \cup JsonObjects

TextTokens == {SP, NL, ":", "[DONE]", "PROCESSING", "processing", "OPENROUTER", "{bad"}

RECURSIVE SeqsUpTo(_, _)
SeqsUpTo(S, n) ==
    IF n = 0 THEN {<<>>}
    ELSE LET shorter == SeqsUpTo(S, n - 1)
         IN  shorter \cup {Append(q, x) : q \in shorter, x \in S}

TextFrames ==
    {Frame(text, Undef) :
        text \in SeqsUpTo(TextTokens, MaxFrameTokens)
                 \cup {<<":", SP, "OPENROUTER", SP, "PROCESSING">>,
                       <<":", SP, "openrouter", SP, "processing", SP, "{bad">>}}

JsonFrames ==
    {Frame(text, json) : text \in {<<JSONDOC>>, <<SP, JSONDOC, NL>>}, json \in JsonValues}

Frames == TextFrames \cup JsonFrames

----------------------------------------------------------------------------
(* parseStreamChunk *)

Chunk(content, done) == [kind |-> "chunk", content |-> content, done |-> done]
NullChunk == [kind |-> "null"]
Raised(name) == [kind |-> "throw", error |-> name]

\* JSON.parse: surrounding whitespace is allowed, anything else is a SyntaxError
JsonParse(data) ==
    IF Trim(data.text) = <<JSONDOC>> THEN [ok |-> TRUE, value |-> data.json]
    ELSE [ok |-> FALSE, value |-> Undef]

\* property read parsed.name on a non-null JSON value
Prop(parsed, name) == IF parsed.t = "object" THEN parsed[name] ELSE Undef

DeltaText(delta) == IF delta.t = "object" THEN delta.text ELSE Undef

ContentOrEmpty(content) == IF Truthy(content) THEN content.s ELSE <<>>

\* the statements of OpenAIProvider.parseStreamChunk after JSON.parse
DecodeParsed(parsed) ==
    IF parsed = Null THEN Raised("TypeError")
    ELSE
    LET type == Prop(parsed, "type")
        delta == Prop(parsed, "delta")
        text == Prop(parsed, "text")
        choices == [choices |-> Prop(parsed, "choices")]
        parts == FirstCandidateParts([candidates |-> Prop(parsed, "candidates")])
        typed == IF Truthy(type) /\ IsStr(type)
                 THEN IF Includes(type.s, <<"response.output_text.delta">>) /\ IsStr(delta)
                      THEN delta
                      ELSE IF Includes(type.s, <<"response.output_text.done">>) /\ IsStr(text)
                           THEN text
                           ELSE Undef
                 ELSE Undef
        partsThrow ==
            \/ ~IsArr(parts)
            \/ \E i \in 1..Len(parts.a) :
                   /\ parts.a[i] = Null
                   /\ \A j \in 1..(i - 1) :
                          parts.a[j] # Null /\ ~VisibleTextPart(parts.a[j])
        visible == SelectSeq(parts.a, LAMBDA part : part # Null /\ VisibleTextPart(part))
        content ==
            IF ~Truthy(typed) /\ Truthy(FirstChoiceContent(choices))
            THEN FirstChoiceContent(choices)
            ELSE IF Truthy(parts)
                 THEN IF visible = <<>> THEN typed ELSE visible[1].text
            ELSE IF Truthy(DeltaText(delta)) THEN DeltaText(delta)
            ELSE IF Truthy(text) THEN text
            ELSE typed
        finishReason == FirstChoiceFinish(choices)
        inChoiceBranch == ~Truthy(typed) /\ Truthy(FirstChoiceContent(choices))
        doneThrows ==
            /\ ~Truthy(finishReason)
            /\ ~Truthy(Prop(parsed, "done"))
            /\ Truthy(type)
            /\ ~IsStr(type)
        done ==
            \/ Truthy(finishReason)
            \/ Truthy(Prop(parsed, "done"))
            \/ (Truthy(type) /\ Includes(type.s, <<"response.completed">>))
    IN  IF ~inChoiceBranch /\ Truthy(parts) /\ partsThrow THEN Raised("TypeError")
        ELSE IF doneThrows THEN Raised("TypeError")
        ELSE Chunk(ContentOrEmpty(content), done)

\* the try block: JSON.parse, then the decoding
TryDecode(data) ==
    LET p == JsonParse(data)
    IN  IF ~p.ok THEN Raised("SyntaxError") ELSE DecodeParsed(p.value)

\* variant: only the SyntaxError of JSON.parse is caught
CatchAll_SyntaxOnly(outcome) ==
    IF outcome = Raised("SyntaxError") THEN NullChunk ELSE outcome

\* catch (e) { return null }
CatchAll(outcome) == IF outcome.kind = "throw" THEN NullChunk ELSE outcome

parseStreamChunk(data) ==
    IF Trim(data.text) = <<>> \/ Trim(data.text) = <<"[DONE]">> THEN Chunk(<<>>, TRUE)
    ELSE IF data.text = <<":", SP, "OPENROUTER", SP, "PROCESSING">> THEN NullChunk
    ELSE IF StartsWith(data.text, <<":", SP>>)
            /\ Includes(ToUpperCase(data.text), <<"PROCESSING">>) THEN NullChunk
    ELSE CatchAll(TryDecode(data))

\* OpenAIResponsesProvider.parseStreamChunk
RespDecodeParsed(parsed) ==
    IF parsed = Null THEN Raised("TypeError")
    ELSE
    LET type == Prop(parsed, "type")
        delta == Prop(parsed, "delta")
    IN  IF type = T("response.output_text.delta") /\ IsStr(delta)
        THEN Chunk(delta.s, FALSE)
        ELSE IF type = T("response.output_text.done") \/ type = T("response.completed")
        THEN Chunk(<<>>, TRUE)
        ELSE IF Truthy(DeltaText(delta)) THEN Chunk(DeltaText(delta).s, FALSE)
        ELSE NullChunk

RespTryDecode(data) ==
    LET p == JsonParse(data)
    IN  IF ~p.ok THEN Raised("SyntaxError") ELSE RespDecodeParsed(p.value)

RespParseStreamChunk(data) ==
    IF Trim(data.text) = <<>> THEN NullChunk
    ELSE CatchAll(RespTryDecode(data))

InitChunk ==
    /\ config = [baseUrl |-> Str(<<"https://h", "/">>), apiKey |-> T("sk-key")]
    /\ adapter = "OpenAIProvider"
    /\ modelId = <<"gpt-4o">>
    /\ maxTokensParamName = "max_tokens"
    /\ calls = [c \in Slots |-> IdleCall]
    /\ everCorrected = FALSE
    /\ responseData = NoData
    /\ extractOut = [openai |-> NotRun, responses |-> NotRun]
    /\ frame \in Frames
    /\ chunkOut = [openai |-> NotRun, responses |-> NotRun]
    /\ StreamIdle /\ EncodeIdle /\ ControllerIdle /\ DrawIdle

ParseOpenAI ==
    /\ chunkOut.openai = NotRun
    /\ chunkOut' = [chunkOut EXCEPT !.openai = parseStreamChunk(frame)]
    /\ UNCHANGED <<callVars, extractVars, frame, auxVars>>

ParseResponses ==
    /\ chunkOut.responses = NotRun
    /\ chunkOut' = [chunkOut EXCEPT !.responses = RespParseStreamChunk(frame)]
    /\ UNCHANGED <<callVars, extractVars, frame, auxVars>>

NextChunk == ParseOpenAI \/ ParseResponses

SpecChunk == InitChunk /\ [][NextChunk]_vars

----------------------------------------------------------------------------
(* Properties of callAPI *)

Finished(call) == call.pc \in {"returned", "thrown"}
CompletionsMode == adapter = "OpenAIProvider" /\ Truthy(config.baseUrl) /\ ~useResponsesApi
ResponsesMode == adapter = "OpenAIProvider" /\ Truthy(config.baseUrl) /\ useResponsesApi
HasField(body, name) == name \in DOMAIN body.fields
CarriesSystemRole(body) == \E i \in 1..Len(body.messages) : body.messages[i].role = "system"

RejectionMessage(resp) ==
    IF resp.kind = "http" /\ ~resp.ok /\ resp.body # Unparsable
       /\ resp.body.error.t = "object" /\ IsStr(resp.body.error.message)
    THEN ToLowerCase(resp.body.error.message.s) ELSE <<>>

\* an unsupported-parameter rejection naming both token-limit fields
ParamRejection(resp) ==
    /\ RejectionMessage(resp) # <<>>
    /\ Includes(RejectionMessage(resp), <<"max_tokens">>)
    /\ Includes(RejectionMessage(resp), <<"max_completion_tokens">>)
    /\ \/ resp.body.error.code = T("unsupported_parameter")
       \/ Includes(RejectionMessage(resp), <<"unsupported", SP, "parameter">>)
    /\ resp.body.error.param \in {Undef, T("max_tokens")}

\* C1: within one call each correction is applied at most once, at most three
\* requests are sent, and every response either ends the call or spends one
\* correction on exactly one further request
C1_Bounded ==
    \A c \in Slots :
        LET call == calls[c]
        IN  /\ call.nParamFix <= 1
            /\ call.nMerge <= 1
            /\ Len(call.requests) <= 3
            /\ Len(call.requests) =
                   IF call.pc = "idle" \/ call.result.kind = "ConfigError"
                   THEN 0 ELSE 1 + call.nParamFix + call.nMerge

C1_Step ==
    \A c \in Slots :
        (calls[c].pc = "awaiting" /\ calls'[c] # calls[c]) =>
            \/ /\ Finished(calls'[c])
               /\ calls'[c].requests = calls[c].requests
            \/ /\ calls'[c].pc = "awaiting"
               /\ Len(calls'[c].requests) = Len(calls[c].requests) + 1
               /\ calls'[c].nParamFix + calls'[c].nMerge
                      = calls[c].nParamFix + calls[c].nMerge + 1

C1_RetryLoopBounded == []C1_Bounded /\ [][C1_Step]_vars

C1_Witness ==
    \E c \in Slots :
        /\ Finished(calls[c])
        /\ calls[c].nParamFix = 1
        /\ calls[c].nMerge = 1
        /\ Len(calls[c].requests) = 3

\* C2: once the sticky field is max_completion_tokens it never goes back to
\* max_tokens, whatever the order in which overlapping calls complete
C2_NeverReverts ==
    [][maxTokensParamName = "max_completion_tokens"
           => maxTokensParamName' = "max_completion_tokens"]_vars

\* C3: Completions mode, first attempt sent with max_tokens and rejected by the
\* parameter signature, second attempt accepted: two requests, the second with
\* max_completion_tokens, without max_tokens, and with the same messages
C3_Case(call) ==
    /\ CompletionsMode
    /\ Len(call.responses) >= 2
    /\ HasField(call.requests[1].body, "max_tokens")
    /\ ParamRejection(call.responses[1])
    /\ call.responses[2].kind = "http" /\ call.responses[2].ok

C3_OneRetryWithCompletionTokens ==
    \A c \in Slots :
        LET call == calls[c]
        IN  C3_Case(call) =>
                /\ Len(call.requests) = 2
                /\ Finished(call)
                /\ HasField(call.requests[2].body, "max_completion_tokens")
                /\ ~HasField(call.requests[2].body, "max_tokens")
                /\ call.requests[2].body.messages = call.requests[1].body.messages

C3_Witness ==
    \E c \in Slots :
        /\ C3_Case(calls[c])
        /\ calls[c].pc = "returned"
        /\ "maxTokens" \in DOMAIN calls[c].params

\* C4: after a call in which the parameter correction fired (however that call
\* ended) the field is max_completion_tokens, and every Completions request of
\* a later call carries max_completion_tokens and never max_tokens
C4_StickyAfterCorrection ==
    /\ (adapter = "OpenAIProvider" /\ everCorrected)
           => maxTokensParamName = "max_completion_tokens"
    /\ \A c \in Slots :
           (CompletionsMode /\ calls[c].startedAfterFix) =>
               \A i \in 1..Len(calls[c].requests) :
                   /\ HasField(calls[c].requests[i].body, "max_completion_tokens")
                   /\ ~HasField(calls[c].requests[i].body, "max_tokens")

C4_Witness ==
    \E c \in Slots :
        /\ CompletionsMode
        /\ calls[c].startedAfterFix
        /\ calls[c].nParamFix = 0
        /\ calls[c].pc = "returned"
        /\ Len(calls[c].requests) >= 1

\* a rejection of the system role (Completions mode)
SystemRoleRejection(resp) ==
    /\ Includes(RejectionMessage(resp), <<"system">>)
    /\ \/ Includes(RejectionMessage(resp), <<"unsupported">>)
       \/ Includes(RejectionMessage(resp), <<"not", SP, "supported">>)
       \/ Includes(RejectionMessage(resp), <<"not", SP, "allowed">>)
       \/ Includes(RejectionMessage(resp), <<"invalid">>)
       \/ Includes(RejectionMessage(resp), <<"role">>)

\* a rejection of the instructions field (Responses mode)
InstructionsRejection(resp) ==
    \/ Includes(RejectionMessage(resp), <<"instruction">>)
    \/ /\ Includes(RejectionMessage(resp), <<"system">>)
       /\ \/ Includes(RejectionMessage(resp), <<"unsupported">>)
          \/ Includes(RejectionMessage(resp), <<"not", SP, "supported">>)
          \/ Includes(RejectionMessage(resp), <<"not", SP, "allowed">>)
          \/ Includes(RejectionMessage(resp), <<"invalid">>)

Accepted(resp) == resp.kind = "http" /\ resp.ok

\* C5: Completions mode, a call with a system message that starts with
\* max_tokens: (parameter rejection, system-role rejection, success) and
\* (system-role rejection, parameter rejection, success) both take exactly three
\* requests, and the third request carries both corrections
C5_Start(call) ==
    /\ CompletionsMode
    /\ HasSystem(call.messages)
    /\ Len(call.responses) >= 3
    /\ HasField(call.requests[1].body, "max_tokens")

C5_ParamThenRole(call) ==
    /\ C5_Start(call)
    /\ ParamRejection(call.responses[1])
    /\ SystemRoleRejection(call.responses[2])
    /\ Accepted(call.responses[3])

C5_RoleThenParam(call) ==
    /\ C5_Start(call)
    /\ SystemRoleRejection(call.responses[1]) /\ ~ParamRejection(call.responses[1])
    /\ ParamRejection(call.responses[2])
    /\ Accepted(call.responses[3])

C5_BothOrdersRecovered ==
    \A c \in Slots :
        LET call == calls[c]
        IN  (C5_ParamThenRole(call) \/ C5_RoleThenParam(call)) =>
                /\ Len(call.requests) = 3
                /\ Len(call.responses) = 3
                /\ Finished(call)
                /\ call.result.kind \notin {"UpstreamError", "TransportError", "ConfigError"}
                /\ call.stream => call.pc = "returned"
                /\ HasField(call.requests[3].body, "max_completion_tokens")
                /\ ~HasField(call.requests[3].body, "max_tokens")
                /\ ~CarriesSystemRole(call.requests[3].body)
                /\ C5_ParamThenRole(call) =>
                       /\ HasField(call.requests[2].body, "max_completion_tokens")
                       /\ CarriesSystemRole(call.requests[2].body)
                /\ C5_RoleThenParam(call) =>
                       /\ HasField(call.requests[2].body, "max_tokens")
                       /\ ~CarriesSystemRole(call.requests[2].body)

C5_Witness ==
    \E c \in Slots : C5_RoleThenParam(calls[c]) /\ calls[c].pc = "returned"

C5_WitnessParamFirst ==
    \E c \in Slots : C5_ParamThenRole(calls[c]) /\ calls[c].pc = "returned"

\* C6: a non-success response that matches no correction signature, or only a
\* correction already used in this call, is the last one: no further request is
\* sent and the thrown error carries the status and parsed body of that response
UsedBefore(call, i, decision) == \E j \in 1..(i - 1) : call.decisions[j] = decision

ParsedErrorBody(resp) == IF resp.body = Unparsable THEN EmptyObj ELSE resp.body

C6_Unrecoverable(call, i) ==
    LET resp == call.responses[i]
    IN  /\ adapter = "OpenAIProvider"
        /\ resp.kind = "http" /\ ~resp.ok
        /\ ~ParamRejection(resp) \/ UsedBefore(call, i, "paramfix")
        /\ \/ UsedBefore(call, i, "merge")
           \/ IF useResponsesApi THEN ~InstructionsRejection(resp)
                                 ELSE ~SystemRoleRejection(resp)

C6_LastErrorSurfaces ==
    \A c \in Slots :
        LET call == calls[c]
        IN  \A i \in 1..Len(call.responses) :
                C6_Unrecoverable(call, i) =>
                    /\ i = Len(call.responses)
                    /\ Len(call.requests) = i
                    /\ call.pc = "thrown"
                    /\ call.result = [kind |-> "UpstreamError",
                                      status |-> call.responses[i].status,
                                      error |-> ParsedErrorBody(call.responses[i])]

C6_Witness ==
    \E c \in Slots :
        LET call == calls[c]
            n == Len(call.responses)
        IN  /\ call.result.kind = "UpstreamError"
            /\ n = 3
            /\ C6_Unrecoverable(call, n)
            /\ ParamRejection(call.responses[n])
            /\ call.responses[1].status # call.responses[n].status
            /\ call.responses[1].body # call.responses[n].body

\* C7: with the base URL or the API key absent, callAPI of either adapter fails
\* with a configuration error and sends no request
C7_ConfigErrorWithoutRequest ==
    (~Truthy(config.baseUrl) \/ ~Truthy(config.apiKey)) =>
        \A c \in Slots :
            /\ calls[c].requests = <<>>
            /\ calls[c].pc # "idle" => calls[c].result.kind = "ConfigError"

----------------------------------------------------------------------------
(* Properties of the non-streaming extraction *)

FirstNonBlank(values) ==
    LET hits == SelectSeq(values, NonBlankStr)
    IN  IF hits = <<>> THEN Undef ELSE hits[1]

OutputShapeText(d) ==
    IF IsArr(d.output)
    THEN FirstNonBlank(Flatten(Map(d.output.a,
             LAMBDA item : IF IsArr(item.content)
                           THEN Flatten(Map(item.content.a,
                                    LAMBDA part : <<part.text, part.output_text>>))
                           ELSE <<>>)))
    ELSE Undef

CandidateShapeText(d) ==
    IF IsArr(FirstCandidateParts(d))
    THEN LET visible == SelectSeq(FirstCandidateParts(d).a, VisibleTextPart)
         IN  IF visible = <<>> THEN Undef ELSE visible[1].text
    ELSE Undef

\* the shapes in the documented order
ShapeTexts(d) ==
    <<FirstChoiceContent(d), d.output_text, OutputShapeText(d), CandidateShapeText(d),
      d.content, d.text>>

\* C8: the first shape, in the documented order, that holds non-empty text wins,
\* and the empty-response error is raised only if no shape holds non-empty text
C8_FirstNonEmptyShapeWins ==
    extractOut.openai # NotRun =>
        LET winner == FirstNonBlank(ShapeTexts(responseData))
        IN  IF winner = Undef
            THEN extractOut.openai.kind = "EmptyResponseError"
            ELSE /\ extractOut.openai.kind = "response"
                 /\ extractOut.openai.content = winner.s

----------------------------------------------------------------------------
(* Properties of parseStreamChunk *)

IsStatusComment(data) ==
    StartsWith(data.text, <<":", SP>>) /\ Includes(data.text, <<"PROCESSING">>)

IsMalformedJson(data) ==
    /\ ~JsonParse(data).ok
    /\ Trim(data.text) # <<>>
    /\ Trim(data.text) # <<"[DONE]">>

NoVisibleContent(data) ==
    Trim(data.text) = <<>> \/ IsStatusComment(data) \/ IsMalformedJson(data)

\* C9: both decoders return null for a frame without user-visible content (a
\* blank or whitespace-only heartbeat, a status comment, unparsable JSON), so
\* such a frame never yields done=true
C9_NullForNoContent ==
    NoVisibleContent(frame) =>
        /\ chunkOut.openai \in {NotRun, NullChunk}
        /\ chunkOut.responses \in {NotRun, NullChunk}

\* C10: both decoders return a chunk or null for every frame and never throw;
\* OpenAIProvider maps [DONE] to the terminal chunk, a ': ... PROCESSING'
\* comment to null and malformed JSON to null
C10_Total ==
    /\ chunkOut.openai.kind \in {"none", "chunk", "null"}
    /\ chunkOut.responses.kind \in {"none", "chunk", "null"}
    /\ chunkOut.openai # NotRun =>
           /\ frame.text = <<"[DONE]">> => chunkOut.openai = Chunk(<<>>, TRUE)
           /\ IsStatusComment(frame) => chunkOut.openai = NullChunk
           /\ IsMalformedJson(frame) => chunkOut.openai = NullChunk
    /\ (chunkOut.responses # NotRun /\ IsMalformedJson(frame))
           => chunkOut.responses = NullChunk

C10_Witness ==
    /\ JsonParse(frame).ok
    /\ frame.json = Null
    /\ chunkOut.openai = NullChunk
    /\ chunkOut.responses = NullChunk

IsJsonObject(data) == JsonParse(data).ok /\ data.json.t = "object"

\* the rule of the done flag, read off the parsed document alone
DoneRule(parsed) ==
    \/ Truthy(FirstChoiceFinish([choices |-> parsed.choices]))
    \/ Truthy(parsed.done)
    \/ (IsStr(parsed.type) /\ Includes(parsed.type.s, <<"response.completed">>))

ReturnsDone(out) == IF out.kind = "chunk" THEN out.done ELSE FALSE

\* C11: for every frame that parses as a JSON object, OpenAIProvider's
\* parseStreamChunk returns done=true exactly when choices[0] has a finish
\* reason, the done flag is set, or the event type is the completion of the
\* response (an output_text.done event alone is not terminal)
C11_DoneIffRule ==
    (IsJsonObject(frame) /\ chunkOut.openai # NotRun) =>
        (ReturnsDone(chunkOut.openai) <=> DoneRule(frame.json))

----------------------------------------------------------------------------
(* A Completions stream, decoded frame by frame by its consumer *)

MaxStreamFrames == 3   \* delta frames of one stream

DeltaContents == {Str(<<>>), T("Hel"), T("lo"), Str(<<SP>>)}

\* data: {"choices":[{"delta":{"content": c}, "finish_reason": null}]}
DeltaFrame(content) ==
    Frame(<<JSONDOC>>, Obj(Undef, Undef, Undef, Choice(content, Null), Undef, Undef))

DoneSentinel == Frame(<<"[DONE]">>, Undef)

CompletionsStreams ==
    {Map(cs, DeltaFrame) \o <<DoneSentinel>> : cs \in SeqsUpTo(DeltaContents, MaxStreamFrames)}

\* variant: the chunk replaces the text instead of being appended
onChunk_Replace(acc, chunkText) == chunkText

\* accumulated += chunkText
onChunk(acc, chunkText) == acc \o chunkText

IdleInstance ==
    /\ config = [baseUrl |-> Str(<<"https://h", "/">>), apiKey |-> T("sk-key")]
    /\ adapter = "OpenAIProvider"
    /\ modelId = <<"gpt-4o">>
    /\ maxTokensParamName = "max_tokens"
    /\ calls = [c \in Slots |-> IdleCall]
    /\ everCorrected = FALSE
    /\ responseData = NoData
    /\ extractOut = [openai |-> NotRun, responses |-> NotRun]
    /\ frame = NoFrame
    /\ chunkOut = [openai |-> NotRun, responses |-> NotRun]

InitStream ==
    /\ IdleInstance
    /\ pending \in CompletionsStreams
    /\ chunks = <<>>
    /\ accumulated = <<>>
    /\ EncodeIdle /\ ControllerIdle /\ DrawIdle

\* the consumer takes the next frame, decodes it and hands the content of a
\* non-null chunk to onChunk
ReadFrame ==
    /\ pending # <<>>
    /\ LET out == parseStreamChunk(Head(pending))
       IN  /\ chunks' = Append(chunks, [frame |-> Head(pending), out |-> out])
           /\ accumulated' = IF out.kind = "chunk"
                             THEN onChunk(accumulated, out.content)
                             ELSE accumulated
    /\ pending' = Tail(pending)
    /\ UNCHANGED <<callVars, extractVars, chunkVars, encodeVars, controllerVars, drawVars>>

NextStream == ReadFrame

SpecStream == InitStream /\ [][NextStream]_vars

\* content of the delta frame that produced the i-th chunk
DeltaContentOf(entry) == FirstChoiceContent([choices |-> entry.frame.json.choices]).s

IsDeltaEntry(entry) == entry.frame # DoneSentinel

\* C12: a Completions stream of delta frames c1..cn and the [DONE] sentinel
\* decodes, frame by frame, to the chunks {content: ci, done: false} in order
\* and then {content: '', done: true}; the accumulated text is c1 ++ ... ++ cn
C12_StreamAccumulates ==
    /\ \A i \in 1..Len(chunks) :
           IF IsDeltaEntry(chunks[i])
           THEN chunks[i].out = Chunk(DeltaContentOf(chunks[i]), FALSE)
           ELSE /\ chunks[i].out = Chunk(<<>>, TRUE)
                /\ pending = <<>>
    /\ accumulated = Flatten(Map(SelectSeq(chunks, IsDeltaEntry), DeltaContentOf))

C12_Witness ==
    /\ pending = <<>>
    /\ Len(chunks) = 3
    /\ chunks[1].out = Chunk(<<"Hel">>, FALSE)
    /\ chunks[2].out = Chunk(<<"lo">>, FALSE)
    /\ chunks[3].out = Chunk(<<>>, TRUE)
    /\ accumulated = <<"Hel", "lo">>

----------------------------------------------------------------------------
(* OpenAIDrawingService: request encoding *)

DrawingPart(text, inlineData) == [text |-> text, inlineData |-> inlineData]
InlineData(mimeType, data) == [t |-> "object", mimeType |-> mimeType, data |-> data]
DrawingMsg(role, parts) == [role |-> role, parts |-> parts]

HasText(part) == Truthy(part.text)
DrawingPartText(part) == part.text.s
DrawingSystemText(msg) == Join(Map(SelectSeq(msg.parts, HasText), DrawingPartText), <<NL>>)

\* the content parts one part of a drawing message contributes
DrawingContentParts(part) ==
    (IF Truthy(part.text) THEN <<TextPart(part.text.s)>> ELSE <<>>)
    \o (IF Truthy(part.inlineData)
        THEN <<ImagePart(Str(<<"data:", part.inlineData.mimeType, ";base64,",
                               part.inlineData.data>>))>>
        ELSE <<>>)

HasContentParts(msg) == Flatten(Map(msg.parts, DrawingContentParts)) # <<>>

DrawingWireMessage(msg) ==
    LET contentParts == Flatten(Map(msg.parts, DrawingContentParts))
    IN  [role |-> IF msg.role = "model" THEN "assistant" ELSE msg.role,
         content |-> IF Len(contentParts) = 1 /\ contentParts[1].type = "text"
                     THEN contentParts[1].text
                     ELSE Arr(contentParts)]

DrawingBuildMessages(conversationHistory, systemPrompt) ==
    LET trimmedCustomPrompt == IF IsStr(systemPrompt) THEN Trim(systemPrompt.s) ELSE <<>>
        systemMessages == SelectSeq(conversationHistory, IsSystem)
        systemText == Join(Map(systemMessages, DrawingSystemText), <<NL>>)
        systemParts == (IF trimmedCustomPrompt # <<>> THEN <<trimmedCustomPrompt>> ELSE <<>>)
                       \o (IF systemMessages # <<>> /\ systemText # <<>>
                           THEN <<systemText>> ELSE <<>>)
    IN  (IF systemParts # <<>>
         THEN <<[role |-> "system", content |-> Str(Join(systemParts, <<NL, NL>>))]>>
         ELSE <<>>)
        \o Map(SelectSeq(SelectSeq(conversationHistory, NotSystem), HasContentParts),
               DrawingWireMessage)

\* the body as JSON.stringify writes it: a property whose value is undefined
\* (temperature, top_p of a config without them) is left out
DrawingBuildRequestBody(model, messages, drawConfig) ==
    [api |-> "chat/completions",
     model |-> model,
     messages |-> messages,
     instructions |-> Undef,
     reasoning |-> Undef,
     stream |-> FALSE,
     fields |-> OptField(drawConfig, "temperature", "temperature")
                @@ OptField(drawConfig, "topP", "top_p")
                @@ OptField(drawConfig, "maxOutputTokens", "max_tokens")
                @@ OptField(drawConfig, "frequencyPenalty", "frequency_penalty")
                @@ OptField(drawConfig, "presencePenalty", "presence_penalty")]

----------------------------------------------------------------------------
(* The request encoders over a domain of message lists and controls *)

MaxMessages == 3       \* messages of one list handed to an encoder

DocumentAttachment == [type |-> "document", mimeType |-> "application/pdf", data |-> "JVBE"]
AudioAttachment == [type |-> "audio", mimeType |-> "audio/mpeg", data |-> "SUQz"]
AttachmentOnly(att) == [Msg("user", Str(<<>>)) EXCEPT !.attachments = <<att>>]

ChatAlphabet ==
    {Msg("system", T("be brief")),
     Msg("system", Str(<<"no emoji", SP>>)),
     Msg("system", Str(<<>>)),
     Msg("system", Str(<<SP>>)),
     Msg("system", Arr(<<TextPart(<<"rule 1">>), ImagePart(T("https://img")),
                         TextPart(<<"rule 2">>)>>)),
     Msg("user", Str(<<"hi", NL>>)),
     Msg("model", T("answer")),
     AttachmentOnly(ImageAttachment),
     AttachmentOnly(DocumentAttachment),
     AttachmentOnly(AudioAttachment)}

ChatLists == SeqsUpTo(ChatAlphabet, MaxMessages)

FullParams ==
    [temperature |-> 70, topP |-> 90, maxTokens |-> 256,
     frequencyPenalty |-> 10, presencePenalty |-> 20]

ChatInputs ==
    {[kind |-> "chat", messages |-> ms, params |-> NoFields, effort |-> Undef] :
        ms \in ChatLists}
    \cup {[kind |-> "chat", messages |-> <<Msg("user", T("hi"))>>, params |-> ps, effort |-> e] :
            ps \in {FullParams, [temperature |-> 70], [maxTokens |-> 256]},
            e \in {Undef, T("high")}}

DrawingAlphabet ==
    {DrawingMsg("system", <<DrawingPart(T("draw flat"), Undef)>>),
     DrawingMsg("user", <<DrawingPart(T("a cat"), Undef)>>),
     DrawingMsg("user", <<DrawingPart(Undef, InlineData("image/png", "AAA="))>>),
     DrawingMsg("model", <<DrawingPart(T("here"), Undef),
                           DrawingPart(Undef, InlineData("image/png", "BBB="))>>),
     DrawingMsg("model", <<DrawingPart(Str(<<>>), Undef)>>)}

DrawingInputs ==
    {[kind |-> "drawing", history |-> h, systemPrompt |-> sp, drawConfig |-> cfg] :
        h \in SeqsUpTo(DrawingAlphabet, MaxMessages),
        sp \in {Undef, Str(<<SP, "be vivid", SP>>)},
        cfg \in {NoFields, [temperature |-> 70, topP |-> 90],
                 [temperature |-> 70, topP |-> 90, maxOutputTokens |-> 256,
                  frequencyPenalty |-> 10, presencePenalty |-> 20]}}

Encoded(v) == [kind |-> "done", value |-> v]

InitEncode ==
    /\ IdleInstance
    /\ StreamIdle /\ ControllerIdle /\ DrawIdle
    /\ encIn \in ChatInputs \cup DrawingInputs
    /\ encOut = [merged |-> NotRun, retried |-> NotRun, completions |-> NotRun,
                 responses |-> NotRun, baseline |-> NotRun, drawing |-> NotRun]

EncodeStep(field, v) ==
    /\ encOut[field] = NotRun
    /\ encOut' = [encOut EXCEPT ![field] = Encoded(v)]
    /\ UNCHANGED <<callVars, extractVars, chunkVars, streamVars, encIn, controllerVars,
                   drawVars>>

\* OpenAIProvider.mergeSystemMessages on the list
MergeMessages ==
    /\ encIn.kind = "chat"
    /\ EncodeStep("merged", mergeSystemMessages(encIn.messages))

\* the bodies that callAPI builds from the merged list on the retry
BuildRetriedBodies ==
    /\ encIn.kind = "chat"
    /\ encOut.merged # NotRun
    /\ EncodeStep("retried",
           [completions |-> buildRequestBody(encOut.merged.value, FALSE, encIn.params,
                                             maxTokensParamName),
            responses |-> buildResponsesRequestBody(encOut.merged.value, FALSE, encIn.params,
                                                    maxTokensParamName)])

BuildCompletionsBody ==
    /\ encIn.kind = "chat"
    /\ EncodeStep("completions",
           buildRequestBody(encIn.messages, FALSE, encIn.params, maxTokensParamName))

BuildResponsesBody ==
    /\ encIn.kind = "chat"
    /\ EncodeStep("responses",
           buildResponsesRequestBody(encIn.messages, FALSE, encIn.params, maxTokensParamName))

\* OpenAIResponsesProvider.buildRequestBody
BuildBaselineBody ==
    /\ encIn.kind = "chat"
    /\ EncodeStep("baseline",
           RespBuildRequestBody(encIn.messages, FALSE, encIn.params, encIn.effort))

\* OpenAIDrawingService.generateContent up to the body it posts
BuildDrawingBody ==
    /\ encIn.kind = "drawing"
    /\ EncodeStep("drawing",
           DrawingBuildRequestBody(<<"gpt-image">>,
               DrawingBuildMessages(encIn.history, encIn.systemPrompt), encIn.drawConfig))

NextEncode ==
    \/ MergeMessages
    \/ BuildRetriedBodies
    \/ BuildCompletionsBody
    \/ BuildResponsesBody
    \/ BuildBaselineBody
    \/ BuildDrawingBody

SpecEncode == InitEncode /\ [][NextEncode]_vars

----------------------------------------------------------------------------
(* Properties of the request encoders *)

NoSystemRole(msgs) == \A i \in 1..Len(msgs) : msgs[i].role # "system"

ChatCase == encIn.kind = "chat"

\* C14: for a list with at least one system message, mergeSystemMessages
\* returns no system-role message, so the bodies built from the merged list
\* carry no system role and, in Responses mode, no instructions field
C14_MergedHasNoSystemRole ==
    (ChatCase /\ HasSystem(encIn.messages)) =>
        /\ encOut.merged # NotRun => NoSystemRole(encOut.merged.value)
        /\ encOut.retried # NotRun =>
               /\ NoSystemRole(encOut.retried.value.completions.messages)
               /\ NoSystemRole(encOut.retried.value.responses.messages)
               /\ encOut.retried.value.responses.instructions = Undef

C14_Witness ==
    /\ ChatCase
    /\ Len(SelectSeq(encIn.messages, IsSystem)) = 2
    /\ Len(encIn.messages) = 3
    /\ encOut.merged # NotRun
    /\ encOut.retried # NotRun
    /\ Len(encOut.merged.value) = 1
    /\ encOut.retried.value.completions.messages[1].role = "user"

SystemTexts(messages) == Map(SelectSeq(messages, IsSystem), stringifyMessageContent)
NonEmptySystemTexts(messages) == SelectSeq(SystemTexts(messages), IsNonEmpty)

ContainsVerbatim(s, sub) ==
    \E i \in 0..(Len(s) - Len(sub)) : SubSeq(s, i + 1, i + Len(sub)) = sub

MergeRan == ChatCase /\ encOut.merged # NotRun

BlankFirstUser(messages) ==
    LET nonSystem == SelectSeq(messages, NotSystem)
    IN  /\ nonSystem # <<>>
        /\ nonSystem[1].role = "user"
        /\ Trim(stringifyMessageContent(nonSystem[1])) = <<>>

EndsWith(s, suffix) ==
    /\ Len(s) >= Len(suffix)
    /\ SubSeq(s, Len(s) - Len(suffix) + 1, Len(s)) = suffix

FirstIsUser(msgs) == msgs # <<>> /\ msgs[1].role = "user"

\* a user message whose text is a "System:" preamble followed by the text
StartsWithPreambleEndsWith(m, text) ==
    /\ m.role = "user"
    /\ IsStr(m.content)
    /\ StartsWith(m.content.s, <<"System:", NL>>)
    /\ EndsWith(m.content.s, Trim(text))

\* C16 as stated: the non-system messages keep their order; a leading user
\* message is replaced, not duplicated, by one user message holding the system
\* preamble and then its text, and the result is as long as the non-system
\* messages; otherwise one standalone preamble message is put in front of the
\* unchanged non-system messages
C16_FirstUserReplaced ==
    (MergeRan /\ HasSystem(encIn.messages)) =>
        LET nonSystem == SelectSeq(encIn.messages, NotSystem)
            result == encOut.merged.value
        IN  IF FirstIsUser(nonSystem)
            THEN /\ Len(result) = Len(nonSystem)
                 /\ StartsWithPreambleEndsWith(result[1],
                                               stringifyMessageContent(nonSystem[1]))
                 /\ Tail(result) = Tail(nonSystem)
            ELSE /\ Len(result) = Len(nonSystem) + 1
                 /\ StartsWithPreambleEndsWith(result[1], <<>>)
                 /\ Tail(result) = nonSystem

\* C16 (amended): the same, for a list in which some system message has
\* non-empty text (the merged text is trimmed, the replaced message keeps its
\* attachments); when no system message has text, the result is the
\* non-system messages, unchanged and in their order, without a preamble
C16_NonSystemKeptInOrder ==
    MergeRan =>
        LET nonSystem == SelectSeq(encIn.messages, NotSystem)
            texts == NonEmptySystemTexts(encIn.messages)
            preamble == <<"System:", NL>> \o Join(texts, <<NL, NL>>)
            result == encOut.merged.value
        IN  IF texts = <<>> THEN result = nonSystem
            ELSE IF FirstIsUser(nonSystem)
            THEN /\ Len(result) = Len(nonSystem)
                 /\ result[1].role = "user"
                 /\ IsStr(result[1].content)
                 /\ StartsWith(result[1].content.s, TrimEnd(preamble))
                 /\ EndsWith(result[1].content.s,
                             Trim(stringifyMessageContent(nonSystem[1])))
                 /\ result[1].attachments = nonSystem[1].attachments
                 /\ Tail(result) = Tail(nonSystem)
            ELSE /\ result[1] = Msg("user", Str(preamble))
                 /\ Tail(result) = nonSystem

C16_Witness ==
    /\ MergeRan
    /\ encIn.messages = <<Msg("system", T("be brief")), Msg("user", Str(<<"hi", NL>>)),
                          Msg("model", T("answer"))>>
    /\ encOut.merged.value =
           <<Msg("user", Str(<<"System:", NL, "be brief", NL, NL, "hi">>)),
             Msg("model", T("answer"))>>

AttachmentOnlyMessage(m) ==
    Len(m.attachments) > 0 /\ Trim(stringifyMessageContent(m)) = <<>>

NonEmptyParts(content) == IsArr(content) /\ content.a # <<>>

\* position, among the non-system messages, of the i-th message of the list
NonSystemIndex(messages, i) == Len(SelectSeq(SubSeq(messages, 1, i), NotSystem))

\* C17: a message with attachments and empty text is encoded as a non-empty
\* parts array in the Completions body and the Responses body of
\* OpenAIProvider and in the body of OpenAIResponsesProvider, whatever the
\* attachment converter returns for its attachments
C17_AttachmentOnlyEncodesNonEmpty ==
    ChatCase =>
        \A i \in 1..Len(encIn.messages) :
            (AttachmentOnlyMessage(encIn.messages[i]) /\ NotSystem(encIn.messages[i])) =>
                /\ encOut.completions # NotRun =>
                       NonEmptyParts(encOut.completions.value.messages[i].content)
                /\ encOut.responses # NotRun =>
                       NonEmptyParts(encOut.responses.value.messages[
                                         NonSystemIndex(encIn.messages, i)].content)
                /\ encOut.baseline # NotRun =>
                       NonEmptyParts(encOut.baseline.value.messages[i].content)

\* C18: the Responses body of OpenAIProvider has no system-role message in
\* its input, holds every non-system message in the original order, and
\* carries the system texts in the one instructions field, which is left out
\* when there is no system text
C18_ResponsesSeparatesSystem ==
    (ChatCase /\ encOut.responses # NotRun) =>
        LET body == encOut.responses.value
            nonSystem == SelectSeq(encIn.messages, NotSystem)
            texts == NonEmptySystemTexts(encIn.messages)
        IN  /\ NoSystemRole(body.messages)
            /\ Len(body.messages) = Len(nonSystem)
            /\ \A i \in 1..Len(nonSystem) :
                   /\ body.messages[i].role = nonSystem[i].role
                   /\ nonSystem[i].attachments = <<>> =>
                          body.messages[i].content = Str(stringifyMessageContent(nonSystem[i]))
                   /\ nonSystem[i].attachments # <<>> => IsArr(body.messages[i].content)
            /\ IF texts = <<>> THEN body.instructions = Undef
               ELSE body.instructions = Str(Join(texts, <<NL, NL>>))

C18_Witness ==
    /\ ChatCase
    /\ encIn.messages = <<Msg("system", T("be brief")), Msg("user", Str(<<"hi", NL>>)),
                          Msg("system", Str(<<"no emoji", SP>>))>>
    /\ encOut.responses # NotRun
    /\ encOut.responses.value.instructions =
           Str(<<"be brief", NL, NL, "no emoji", SP>>)
    /\ encOut.responses.value.messages = <<[role |-> "user", content |-> Str(<<"hi", NL>>)]>>

\* vendor field names of the generation controls, per body
CompletionsControlFields ==
    [temperature |-> {"temperature"}, topP |-> {"top_p"},
     maxTokens |-> {"max_tokens", "max_completion_tokens"},
     frequencyPenalty |-> {"frequency_penalty"}, presencePenalty |-> {"presence_penalty"}]
ResponsesControlFields ==
    [temperature |-> {"temperature"}, topP |-> {"top_p"},
     maxTokens |-> {"max_output_tokens", "max_tokens", "max_completion_tokens"},
     frequencyPenalty |-> {"frequency_penalty"}, presencePenalty |-> {"presence_penalty"}]
DrawingControlFields ==
    [temperature |-> {"temperature"}, topP |-> {"top_p"},
     maxOutputTokens |-> {"max_tokens", "max_completion_tokens"},
     frequencyPenalty |-> {"frequency_penalty"}, presencePenalty |-> {"presence_penalty"}]

AbsentOmitted(params, body, controlFields) ==
    \A control \in DOMAIN controlFields :
        control \notin DOMAIN params => controlFields[control] \cap DOMAIN body.fields = {}

\* C19: in every adapter, a generation control that is absent from params is
\* absent from the request body; no adapter fills in a default value
C19_AbsentControlsOmitted ==
    /\ (ChatCase /\ encOut.completions # NotRun) =>
           /\ AbsentOmitted(encIn.params, encOut.completions.value, CompletionsControlFields)
           /\ encOut.completions.value.reasoning = Undef
    /\ (ChatCase /\ encOut.responses # NotRun) =>
           /\ AbsentOmitted(encIn.params, encOut.responses.value, ResponsesControlFields)
           /\ encOut.responses.value.reasoning = Undef
    /\ (ChatCase /\ encOut.baseline # NotRun) =>
           /\ AbsentOmitted(encIn.params, encOut.baseline.value, ResponsesControlFields)
           /\ encIn.effort = Undef => encOut.baseline.value.reasoning = Undef
    /\ (encIn.kind = "drawing" /\ encOut.drawing # NotRun) =>
           AbsentOmitted(encIn.drawConfig, encOut.drawing.value, DrawingControlFields)

NoModelRole(msgs) == \A i \in 1..Len(msgs) : msgs[i].role # "model"

\* roles of the list as the wire must carry them: model becomes assistant
WireRoles(msgs) ==
    [i \in 1..Len(msgs) |-> IF msgs[i].role = "model" THEN "assistant" ELSE msgs[i].role]
Roles(msgs) == [i \in 1..Len(msgs) |-> msgs[i].role]

\* C20: no request body carries a message of role model; a neutral message of
\* role model is encoded with role assistant, in the Completions and Responses
\* bodies of OpenAIProvider (first attempt and retry), in the body of
\* OpenAIResponsesProvider and in the body of OpenAIDrawingService
C20_ModelRoleNormalized ==
    /\ (ChatCase /\ encOut.completions # NotRun) =>
           Roles(encOut.completions.value.messages) = WireRoles(encIn.messages)
    /\ (ChatCase /\ encOut.responses # NotRun) =>
           Roles(encOut.responses.value.messages)
               = WireRoles(SelectSeq(encIn.messages, NotSystem))
    /\ (ChatCase /\ encOut.retried # NotRun) =>
           /\ NoModelRole(encOut.retried.value.completions.messages)
           /\ NoModelRole(encOut.retried.value.responses.messages)
    /\ (ChatCase /\ encOut.baseline # NotRun) =>
           Roles(encOut.baseline.value.messages) = WireRoles(encIn.messages)
    /\ (encIn.kind = "drawing" /\ encOut.drawing # NotRun) =>
           NoModelRole(encOut.drawing.value.messages)

----------------------------------------------------------------------------
(* Conversation controller: the setup() of DrawingProvidersTab.vue and of
   PlaygroundApp.js.  A message of messages.value is a record; its id stands
   for the identity of the message object (Date.now() differs between two
   accepted events), its timestamp is left out.  Strings are token
   sequences; the triple-backtick fence marker is the one token FENCE. *)

MaxSends == 2          \* aiService.send calls issued in one run
MaxChunks == 2         \* chunks delivered to one call

FENCE == "<fence>"

Components == {"DrawingProvidersTab", "PlaygroundApp"}

TICK == "<tick>"

\* the number of backtick characters of a token: FENCE stands for three of
\* them, TICK for one
Ticks(tok) == IF tok = FENCE THEN 3 ELSE IF tok = TICK THEN 1 ELSE 0

\* the matches of the global fence pattern from here on, run backticks
\* already scanned without a match: a run of k backticks holds k \div 3 of
\* them
RECURSIVE MatchCount(_, _)
MatchCount(text, run) ==
    IF text = <<>> THEN run \div 3
    ELSE IF Ticks(Head(text)) > 0
    THEN MatchCount(Tail(text), run + Ticks(Head(text)))
    ELSE run \div 3 + MatchCount(Tail(text), 0)

\* the number of fence markers text.match finds, 0 when there is no match
FenceCount(text) == MatchCount(text, 0)

buildDisplayText_Always(text) == text \o <<NL, FENCE>>

buildDisplayText(text) ==
    IF FenceCount(text) % 2 # 0 THEN text \o <<NL, FENCE>> ELSE text

FencePositions(text) == {i \in 1..Len(text) : text[i] = FENCE}

FirstOf(S) == CHOOSE x \in S : \A y \in S : x <= y

\* artifactParser.extractArtifact: the first closed fenced block of the text,
\* null when there is none
extractArtifact(text) ==
    LET pos == FencePositions(text)
    IN  IF Cardinality(pos) < 2 THEN Null
        ELSE LET open == FirstOf(pos)
                 close == FirstOf(pos \ {open})
             IN  [t |-> "artifact", code |-> SubSeq(text, open + 1, close - 1)]

\* settingsStore.getCurrentProvider() / getCurrentModel() as seen by
\* ensureProvider
ProviderSettings ==
    {[provider |-> TRUE, model |-> TRUE, apiKey |-> <<"sk-key">>],
     [provider |-> TRUE, model |-> TRUE, apiKey |-> <<>>],
     [provider |-> FALSE, model |-> FALSE, apiKey |-> <<>>]}

ensureProvider(settings) ==
    settings.provider /\ settings.model /\ settings.apiKey # <<>>

\* payload.text of a send event
SendTexts == {<<"hi", SP>>, <<SP>>}

\* chunkText handed to onChunk
ChunkTexts == {<<"a", FENCE>>}

\* value aiService.send resolves with
Responses == {Str(<<"ok">>), Str(<<FENCE, "svg", FENCE>>)}

\* err.message of a rejection
ErrorMessages == {"timeout"}

\* prefillPayload values handed to the component
PrefillMessages ==
    <<[role |-> "model", text |-> <<SP>>],
      [role |-> "system", text |-> <<"draw">>]>>

PrefillPayloads ==
    {[timestamp |-> ts, messages |-> PrefillMessages] : ts \in {1}}

MsgId(kind, n, index) == <<kind, n, index>>

UserMessage(n, text) ==
    [id |-> MsgId("user", n, 0), role |-> "user", text |-> text,
     displayText |-> Undef, isStreaming |-> Undef]

AiPlaceholder(n) ==
    [id |-> MsgId("ai", n, 0), role |-> "model", text |-> <<>>,
     displayText |-> Str(<<>>), isStreaming |-> Bool(TRUE)]

WireMessage(msg) ==
    [id |-> msg.id,
     role |-> IF msg.role = "model" THEN "assistant" ELSE "user",
     content |-> msg.text]

buildConversationMessages(sourceMessages) == Map(sourceMessages, WireMessage)

\* messages.value.findIndex(msg => msg.id === messageId), counted from 1;
\* 0 when no message has the id
IndexOfId(conv, messageId) ==
    LET hits == {i \in 1..Len(conv) : conv[i].id = messageId}
    IN  IF hits = {} THEN 0 ELSE FirstOf(hits)

\* the call record of one aiService.send: its arguments, the closure
\* variables of the handler that issued it, and whether its promise is settled
Call(handler, history, useStream, aiMessageIdx, target) ==
    [handler |-> handler, history |-> history, useStream |-> useStream,
     aiMessageIdx |-> aiMessageIdx, target |-> target,
     accumulated |-> <<>>, delivered |-> 0, status |-> "in flight"]

InFlight(k) == sends[k].status = "in flight"

WritesByIndex(call) == call.handler # "handleRegenerateMessage"

\* position (from 1) of the message a write of the call lands on:
\* messages.value[aiMessageIdx] for send and resend, the target object for
\* regenerate; 0 when the position does not exist or the object has left
\* the list
Addressed(call, conv) ==
    IF WritesByIndex(call)
    THEN IF call.aiMessageIdx + 1 <= Len(conv) THEN call.aiMessageIdx + 1 ELSE 0
    ELSE IndexOfId(conv, call.target)

\* messages.value[aiMessageIdx] is undefined: the property access raises a
\* TypeError
Throws(call, conv) == WritesByIndex(call) /\ Addressed(call, conv) = 0

InitController ==
    /\ IdleInstance
    /\ StreamIdle
    /\ EncodeIdle
    /\ DrawIdle
    /\ component \in Components
    /\ conversation = <<>>
    /\ isStreaming = FALSE
    /\ sends = <<>>
    /\ currentArtifact = Null
    /\ lastPrefillTimestamp = 0

otherVars == <<callVars, extractVars, chunkVars, streamVars, encodeVars, drawVars>>
\* DrawingProvidersTab.vue handleSend, up to the await of aiService.send
handleSend(text, settings, useStream) ==
    /\ component = "DrawingProvidersTab"
    /\ Len(sends) < MaxSends
    /\ Trim(text) # <<>>
    /\ ~isStreaming
    /\ ensureProvider(settings)
    /\ LET n == Len(sends) + 1
           withUser == Append(conversation, UserMessage(n, Trim(text)))
           conversationHistory == buildConversationMessages(withUser)
           withAi == Append(withUser, AiPlaceholder(n))
       IN  /\ conversation' = withAi
           /\ isStreaming' = TRUE
           /\ sends' = Append(sends, Call("handleSend", conversationHistory,
                                          useStream, Len(withAi) - 1,
                                          AiPlaceholder(n).id))
    /\ UNCHANGED <<component, currentArtifact, lastPrefillTimestamp, otherVars>>

\* PlaygroundApp.js handleSend, up to the await of aiService.send
PlaygroundApp_handleSend(text, settings, useStream) ==
    /\ component = "PlaygroundApp"
    /\ Len(sends) < MaxSends
    /\ Trim(text) # <<>>
    /\ ensureProvider(settings)
    /\ LET n == Len(sends) + 1
           withUser == Append(conversation, UserMessage(n, Trim(text)))
           withAi == Append(withUser, AiPlaceholder(n))
           payloadMessages == buildConversationMessages(withAi)
       IN  /\ conversation' = withAi
           /\ isStreaming' = TRUE
           /\ sends' = Append(sends, Call("handleSend", payloadMessages,
                                          useStream, Len(withAi) - 1,
                                          AiPlaceholder(n).id))
    /\ UNCHANGED <<component, currentArtifact, lastPrefillTimestamp, otherVars>>

handleRegenerateMessage_Truncating(messageId, settings, useStream) ==
    /\ component = "DrawingProvidersTab"
    /\ Len(sends) < MaxSends
    /\ LET targetIndex == IndexOfId(conversation, messageId)
       IN  /\ targetIndex # 0
           /\ conversation[targetIndex].role = "model"
           /\ ~isStreaming
           /\ ensureProvider(settings)
           /\ LET history == buildConversationMessages(
                                 SubSeq(conversation, 1, targetIndex - 1))
              IN  /\ history # <<>>
                  /\ isStreaming' = TRUE
                  /\ conversation' =
                         [SubSeq(conversation, 1, targetIndex) EXCEPT
                             ![targetIndex].text = <<>>,
                             ![targetIndex].displayText = Str(<<>>),
                             ![targetIndex].isStreaming = Bool(TRUE)]
                  /\ sends' = Append(sends,
                                     Call("handleRegenerateMessage", history,
                                          useStream, targetIndex - 1, messageId))
    /\ UNCHANGED <<component, currentArtifact, lastPrefillTimestamp, otherVars>>

\* handleRegenerateMessage, up to the await of aiService.send
handleRegenerateMessage(messageId, settings, useStream) ==
    /\ component = "DrawingProvidersTab"
    /\ Len(sends) < MaxSends
    /\ LET targetIndex == IndexOfId(conversation, messageId)
       IN  /\ targetIndex # 0
           /\ conversation[targetIndex].role = "model"
           /\ ~isStreaming
           /\ ensureProvider(settings)
           /\ LET history == buildConversationMessages(
                                 SubSeq(conversation, 1, targetIndex - 1))
              IN  /\ history # <<>>
                  /\ isStreaming' = TRUE
                  /\ conversation' =
                         [conversation EXCEPT
                             ![targetIndex].text = <<>>,
                             ![targetIndex].displayText = Str(<<>>),
                             ![targetIndex].isStreaming = Bool(TRUE)]
                  /\ sends' = Append(sends,
                                     Call("handleRegenerateMessage", history,
                                          useStream, targetIndex - 1, messageId))
    /\ UNCHANGED <<component, currentArtifact, lastPrefillTimestamp, otherVars>>

handleResendUserMessage_KeepLater(messageId, settings, useStream) ==
    /\ component = "DrawingProvidersTab"
    /\ Len(sends) < MaxSends
    /\ LET targetIndex == IndexOfId(conversation, messageId)
       IN  /\ targetIndex # 0
           /\ conversation[targetIndex].role = "user"
           /\ ~isStreaming
           /\ ensureProvider(settings)
           /\ LET n == Len(sends) + 1
                  history == buildConversationMessages(conversation)
                  withAi == Append(conversation, AiPlaceholder(n))
              IN  /\ conversation' = withAi
                  /\ isStreaming' = TRUE
                  /\ sends' = Append(sends,
                                     Call("handleResendUserMessage", history,
                                          useStream, Len(withAi) - 1,
                                          AiPlaceholder(n).id))
    /\ UNCHANGED <<component, currentArtifact, lastPrefillTimestamp, otherVars>>

\* handleResendUserMessage, up to the await of aiService.send
handleResendUserMessage(messageId, settings, useStream) ==
    /\ component = "DrawingProvidersTab"
    /\ Len(sends) < MaxSends
    /\ LET targetIndex == IndexOfId(conversation, messageId)
       IN  /\ targetIndex # 0
           /\ conversation[targetIndex].role = "user"
           /\ ~isStreaming
           /\ ensureProvider(settings)
           /\ LET n == Len(sends) + 1
                  truncated == SubSeq(conversation, 1, targetIndex)
                  history == buildConversationMessages(truncated)
                  withAi == Append(truncated, AiPlaceholder(n))
              IN  /\ conversation' = withAi
                  /\ isStreaming' = TRUE
                  /\ sends' = Append(sends,
                                     Call("handleResendUserMessage", history,
                                          useStream, Len(withAi) - 1,
                                          AiPlaceholder(n).id))
    /\ UNCHANGED <<component, currentArtifact, lastPrefillTimestamp, otherVars>>

\* DrawingProvidersTab.vue handleClear
handleClear ==
    /\ component = "DrawingProvidersTab"
    /\ conversation' = <<>>
    /\ currentArtifact' = Null
    /\ isStreaming' = FALSE
    /\ UNCHANGED <<component, sends, lastPrefillTimestamp, otherVars>>

\* PlaygroundApp.js handleClear
PlaygroundApp_handleClear ==
    /\ component = "PlaygroundApp"
    /\ conversation' = <<>>
    /\ currentArtifact' = Null
    /\ UNCHANGED <<component, isStreaming, sends, lastPrefillTimestamp, otherVars>>

\* deleteMessage, the confirm dialog answered with yes
deleteMessage(messageId) ==
    /\ component = "DrawingProvidersTab"
    /\ LET idx == IndexOfId(conversation, messageId)
       IN  /\ idx # 0
           /\ conversation' = SubSeq(conversation, 1, idx - 1)
                              \o SubSeq(conversation, idx + 1, Len(conversation))
    /\ UNCHANGED <<component, isStreaming, sends, currentArtifact,
                   lastPrefillTimestamp, otherVars>>

PrefillEntry(payload, index) ==
    LET msg == payload.messages[index + 1]
        role == IF msg.role = "model" THEN "model" ELSE "user"
    IN  [id |-> MsgId("prefill", payload.timestamp, index),
         role |-> role,
         text |-> msg.text,
         displayText |-> IF role = "model" THEN Str(msg.text) ELSE Undef,
         isStreaming |-> Undef]

HasVisibleText(msg) == Trim(msg.text) # <<>>

\* applyPrefillPayload, run by the watcher of props.prefillPayload
applyPrefillPayload(payload) ==
    /\ component = "DrawingProvidersTab"
    /\ payload.timestamp # lastPrefillTimestamp
    /\ lastPrefillTimestamp' = payload.timestamp
    /\ conversation' =
           SelectSeq([i \in 1..Len(payload.messages) |-> PrefillEntry(payload, i - 1)],
                     HasVisibleText)
    /\ currentArtifact' = Null
    /\ isStreaming' = FALSE
    /\ UNCHANGED <<component, sends, otherVars>>
\* the service hands one chunk to the onChunk closure of call k.  A TypeError
\* raised in the closure leaves aiService.send as a rejection; the catch and
\* the finally block of the handler then address the same missing position
\* and raise again, so isStreaming.value = false is not reached.
DeliverChunk(k, chunkText) ==
    /\ k \in 1..Len(sends)
    /\ InFlight(k)
    /\ sends[k].useStream
    /\ sends[k].delivered < MaxChunks
    /\ LET call == sends[k]
           acc == onChunk(call.accumulated, chunkText)
           at == Addressed(call, conversation)
           thrown == Throws(call, conversation)
           artifact == extractArtifact(acc)
       IN  /\ conversation' =
                  IF at = 0 THEN conversation
                  ELSE [conversation EXCEPT
                           ![at].text = acc,
                           ![at].displayText = Str(buildDisplayText(acc))]
           /\ currentArtifact' =
                  IF ~thrown /\ artifact # Null THEN artifact ELSE currentArtifact
           /\ sends' = [sends EXCEPT
                           ![k].accumulated = acc,
                           ![k].delivered = @ + 1,
                           ![k].status = IF thrown THEN "threw" ELSE @]
    /\ UNCHANGED <<component, isStreaming, lastPrefillTimestamp, otherVars>>

\* the finally block of a handler, on the list conv
Finally(call, conv) ==
    LET at == Addressed(call, conv)
    IN  IF at = 0 THEN conv
        ELSE [conv EXCEPT ![at].isStreaming = Bool(FALSE),
                          ![at].displayText = Str(conv[at].text)]

\* aiService.send of call k resolves: the rest of the try block and the
\* finally block of the handler
Resolve(k, response) ==
    /\ k \in 1..Len(sends)
    /\ InFlight(k)
    /\ LET call == sends[k]
           at == Addressed(call, conversation)
           thrown == Throws(call, conversation)
           written == ~call.useStream /\ IsStr(response)
           afterTry == IF written /\ at # 0
                       THEN [conversation EXCEPT ![at].text = response.s,
                                                 ![at].displayText = response]
                       ELSE conversation
           artifact == IF written THEN extractArtifact(response.s) ELSE Null
       IN  /\ conversation' = IF thrown THEN conversation
                              ELSE Finally(call, afterTry)
           /\ currentArtifact' =
                  IF ~thrown /\ artifact # Null THEN artifact ELSE currentArtifact
           /\ isStreaming' = IF thrown THEN isStreaming ELSE FALSE
           /\ sends' = [sends EXCEPT
                           ![k].status = IF thrown THEN "threw" ELSE "resolved"]
    /\ UNCHANGED <<component, lastPrefillTimestamp, otherVars>>

ErrorSuffix(message) == <<NL, NL, "*Error: ", message, "*">>

\* aiService.send of call k rejects: the catch block and the finally block
\* of the handler
Reject(k, message) ==
    /\ k \in 1..Len(sends)
    /\ InFlight(k)
    /\ LET call == sends[k]
           at == Addressed(call, conversation)
           thrown == Throws(call, conversation)
           afterCatch == IF at = 0 THEN conversation
                         ELSE LET text == conversation[at].text \o ErrorSuffix(message)
                              IN  [conversation EXCEPT ![at].text = text,
                                                       ![at].displayText = Str(text)]
       IN  /\ conversation' = IF thrown THEN conversation
                              ELSE Finally(call, afterCatch)
           /\ isStreaming' = IF thrown THEN isStreaming ELSE FALSE
           /\ sends' = [sends EXCEPT
                           ![k].status = IF thrown THEN "threw" ELSE "rejected"]
    /\ UNCHANGED <<component, currentArtifact, lastPrefillTimestamp, otherVars>>

MessageIds == {conversation[i].id : i \in 1..Len(conversation)}

NextController ==
    \/ \E text \in SendTexts, settings \in ProviderSettings, useStream \in BOOLEAN :
           handleSend(text, settings, useStream)
    \/ \E text \in SendTexts, settings \in ProviderSettings, useStream \in BOOLEAN :
           PlaygroundApp_handleSend(text, settings, useStream)
    \/ \E messageId \in MessageIds, settings \in ProviderSettings, useStream \in BOOLEAN :
           handleRegenerateMessage(messageId, settings, useStream)
    \/ \E messageId \in MessageIds, settings \in ProviderSettings, useStream \in BOOLEAN :
           handleResendUserMessage(messageId, settings, useStream)
    \/ handleClear
    \/ PlaygroundApp_handleClear
    \/ \E messageId \in MessageIds : deleteMessage(messageId)
    \/ \E payload \in PrefillPayloads : applyPrefillPayload(payload)
    \/ \E k \in 1..MaxSends, chunkText \in ChunkTexts : DeliverChunk(k, chunkText)
    \/ \E k \in 1..MaxSends, response \in Responses : Resolve(k, response)
    \/ \E k \in 1..MaxSends, message \in ErrorMessages : Reject(k, message)

SpecController == InitController /\ [][NextController]_vars

InFlightCalls == {k \in 1..Len(sends) : InFlight(k)}

\* C13: at most one aiService.send call of the conversation is in flight at
\* any time, for every interleaving of send, regenerate, resend, clear,
\* prefill and delete events with the completions of the calls
C13_AtMostOneInFlight == Cardinality(InFlightCalls) <= 1

----------------------------------------------------------------------------
(* Properties of the conversation controller *)

HistoryEntries(k) == {sends[k].history[i] : i \in 1..Len(sends[k].history)}

\* the messages handed to aiService.send by the calls issued so far
SentMessages == UNION {HistoryEntries(k) : k \in 1..Len(sends)}

\* C21: every message in a list handed to aiService.send has non-empty
\* text (the controller model carries no attachments): neither the empty
\* assistant placeholder of the call nor an assistant message left empty by
\* an earlier call is part of a sent history
C21_SentMessagesNonEmpty == \A msg \in SentMessages : msg.content # <<>>

----------------------------------------------------------------------------
(* The controller one turn at a time: the same handlers, a conversation
   prefilled with several messages, and at most MaxTurns calls in a run *)

MaxTurns == 1          \* aiService.send calls issued in one run of SpecTurn

TurnPrefillMessages ==
    <<[role |-> "user", text |-> <<"draw">>],
      [role |-> "model", text |-> <<SP>>],
      [role |-> "model", text |-> <<"done">>],
      [role |-> "user", text |-> <<"more">>]>>

TurnPrefillPayloads == {[timestamp |-> 1, messages |-> TurnPrefillMessages]}

TurnsLeft == Len(sends) < MaxTurns

NextTurn ==
    \/ \E text \in SendTexts, settings \in ProviderSettings, useStream \in BOOLEAN :
           TurnsLeft /\ handleSend(text, settings, useStream)
    \/ \E text \in SendTexts, settings \in ProviderSettings, useStream \in BOOLEAN :
           TurnsLeft /\ PlaygroundApp_handleSend(text, settings, useStream)
    \/ \E messageId \in MessageIds, settings \in ProviderSettings, useStream \in BOOLEAN :
           TurnsLeft /\ handleRegenerateMessage(messageId, settings, useStream)
    \/ \E messageId \in MessageIds, settings \in ProviderSettings, useStream \in BOOLEAN :
           TurnsLeft /\ handleResendUserMessage(messageId, settings, useStream)
    \/ handleClear
    \/ PlaygroundApp_handleClear
    \/ \E messageId \in MessageIds : deleteMessage(messageId)
    \/ \E payload \in TurnPrefillPayloads : applyPrefillPayload(payload)
    \/ \E k \in 1..MaxSends, chunkText \in ChunkTexts : DeliverChunk(k, chunkText)
    \/ \E k \in 1..MaxSends, response \in Responses : Resolve(k, response)
    \/ \E k \in 1..MaxSends, message \in ErrorMessages : Reject(k, message)

SpecTurn == InitController /\ [][NextTurn]_vars

\* the wire messages are the given messages, one for one and in order
IsHistoryOf(history, msgs) ==
    /\ Len(history) = Len(msgs)
    /\ \A j \in 1..Len(msgs) :
           /\ history[j].id = msgs[j].id
           /\ history[j].content = msgs[j].text

IdsOf(msgs) == {msgs[j].id : j \in 1..Len(msgs)}

LastCall(calls_) == calls_[Len(calls_)]

\* C22: an accepted resend of the user message at position i hands exactly
\* the messages up to and including i, in order, to aiService.send, and
\* leaves the conversation as that prefix followed by one new, empty
\* assistant message
C22_ResendTruncates ==
    [][\A messageId \in MessageIds, settings \in ProviderSettings, useStream \in BOOLEAN :
           handleResendUserMessage(messageId, settings, useStream) =>
               LET i == IndexOfId(conversation, messageId)
                   prefix == SubSeq(conversation, 1, i)
               IN  /\ Len(sends') = Len(sends) + 1
                   /\ IsHistoryOf(LastCall(sends').history, prefix)
                   /\ Len(conversation') = i + 1
                   /\ SubSeq(conversation', 1, i) = prefix
                   /\ conversation'[i + 1].role = "model"
                   /\ conversation'[i + 1].text = <<>>
                   /\ conversation'[i + 1].id \notin IdsOf(conversation)]_vars

\* a resend was accepted for the first prefilled message and the three
\* messages after it are gone
C22_Witness ==
    /\ Len(sends) = 1
    /\ sends[1].handler = "handleResendUserMessage"
    /\ Len(sends[1].history) = 1
    /\ Len(conversation) = 2
    /\ conversation[1].id = MsgId("prefill", 1, 0)
    /\ conversation[2].id = sends[1].target

RegenerateCalls == {k \in 1..Len(sends) : sends[k].handler = "handleRegenerateMessage"}

\* the step leaves every message but the one with the given id as it was,
\* and adds or removes none
OnlyMessageChanged(messageId) ==
    /\ Len(conversation') = Len(conversation)
    /\ \A j \in 1..Len(conversation) :
           /\ conversation'[j].id = conversation[j].id
           /\ conversation'[j].role = conversation[j].role
           /\ conversation[j].id # messageId => conversation'[j] = conversation[j]

\* C23: an accepted regenerate of the assistant message at position i hands
\* exactly the messages before i, in order, to aiService.send; that step,
\* and every later chunk, completion or error of the call, changes no
\* message but the regenerated one and adds or removes none
C23_RegenerateReplacesOnlyTarget ==
    [][/\ \A messageId \in MessageIds, settings \in ProviderSettings, useStream \in BOOLEAN :
              handleRegenerateMessage(messageId, settings, useStream) =>
                  LET i == IndexOfId(conversation, messageId)
                  IN  /\ Len(sends') = Len(sends) + 1
                      /\ IsHistoryOf(LastCall(sends').history,
                                     SubSeq(conversation, 1, i - 1))
                      /\ conversation'[i].text = <<>>
                      /\ OnlyMessageChanged(messageId)
        /\ \A k \in RegenerateCalls :
              (\/ \E chunkText \in ChunkTexts : DeliverChunk(k, chunkText)
               \/ \E response \in Responses : Resolve(k, response)
               \/ \E message \in ErrorMessages : Reject(k, message))
                  => OnlyMessageChanged(sends[k].target)]_vars

\* a regenerate call has written a chunk into its target, with a message
\* before and a message after the target still in place
C23_Witness ==
    /\ Len(sends) = 1
    /\ sends[1].handler = "handleRegenerateMessage"
    /\ sends[1].accumulated # <<>>
    /\ Len(conversation) = 3
    /\ conversation[2].id = sends[1].target
    /\ conversation[2].text = sends[1].accumulated
    /\ conversation[3].text = <<"more">>
    /\ IsHistoryOf(sends[1].history, SubSeq(conversation, 1, 1))

----------------------------------------------------------------------------
(* OpenAIDrawingService.generateContentStream from the point where the
   reader of response.body has been acquired.  The response is a sequence of
   pieces of text; a read delivers one or more consecutive pieces, so a read
   may end inside a line, inside the "data: " prefix or inside the JSON
   text. *)

MaxLines == 2          \* lines of one response stream
MaxReads == 3          \* reads that deliver data in one run

TextElement(text) == [kind |-> "text", text |-> text]
DoneElement == [kind |-> "done"]

DataPrefix == <<"da", "ta: ">>

DeltaLine(content) == DataPrefix \o <<"{delta:", content, "}">>
ArrayDeltaLine(content) == DataPrefix \o <<"{delta:[", content, "]}">>
DoneLine == DataPrefix \o <<"[DO", "NE]">>

\* the lines a response is made of: two content deltas (one followed by
\* blanks), a delta with array content, the sentinel, a data line cut off
\* inside its JSON text, a data line without a delta, a comment line
StreamLineAlphabet ==
    {DeltaLine("Hel"), DeltaLine("lo") \o <<SP>>, ArrayDeltaLine("wor"), DoneLine,
     DataPrefix \o <<"{delta:", "Hel">>, DataPrefix \o <<"{}">>, <<": ping">>}

\* the text of a response: its lines, each but possibly the last one ended
\* by a newline
RECURSIVE WireOf(_, _)
WireOf(lines, terminated) ==
    IF lines = <<>> THEN <<>>
    ELSE IF Len(lines) = 1 THEN Head(lines) \o (IF terminated THEN <<NL>> ELSE <<>>)
    ELSE Head(lines) \o <<NL>> \o WireOf(Tail(lines), terminated)

ResponseStreams ==
    {[lines |-> lines, terminated |-> terminated] :
        lines \in SeqsUpTo(StreamLineAlphabet, MaxLines), terminated \in BOOLEAN}

\* buffer.split('\n')
RECURSIVE SplitLines(_)
SplitLines(text) ==
    IF \A i \in 1..Len(text) : text[i] # NL THEN <<text>>
    ELSE LET at == CHOOSE i \in 1..Len(text) :
                       text[i] = NL /\ \A j \in 1..(i - 1) : text[j] # NL
         IN  <<SubSeq(text, 1, at - 1)>> \o SplitLines(SubSeq(text, at + 1, Len(text)))

\* the lines of the split that are complete
CompleteLines(text) == SubSeq(SplitLines(text), 1, Len(SplitLines(text)) - 1)

HeldBack_Dropped(text) == <<>>

\* buffer = lines.pop() || ''
HeldBack(text) == SplitLines(text)[Len(SplitLines(text))]

\* JSON.parse(jsonStr) and the decoding of chunk.choices[0].delta: the
\* elements one data line yields
DeltaElements(jsonStr) ==
    IF Len(jsonStr) = 3 /\ jsonStr[1] = "{delta:" /\ jsonStr[3] = "}"
    THEN <<TextElement(jsonStr[2])>>
    ELSE IF Len(jsonStr) = 3 /\ jsonStr[1] = "{delta:[" /\ jsonStr[3] = "]}"
    THEN <<TextElement(jsonStr[2])>>
    ELSE <<>>

\* the body of the for loop over the lines of one read
LineElements(line) ==
    IF Trim(line) = <<>> THEN <<>>
    ELSE IF ~StartsWith(line, DataPrefix) THEN <<>>
    ELSE LET jsonStr == Trim(SubSeq(line, Len(DataPrefix) + 1, Len(line)))
         IN  IF jsonStr = <<"[DO", "NE]">> THEN <<DoneElement>>
             ELSE DeltaElements(jsonStr)

RECURSIVE ElementsOf(_)
ElementsOf(lines) ==
    IF lines = <<>> THEN <<>>
    ELSE LineElements(Head(lines)) \o ElementsOf(Tail(lines))
releaseLock_Kept(g) == g

\* reader.releaseLock()
releaseLock(g) == [g EXCEPT !.locked = FALSE]

\* the generator runs on to its next yield, or back to reader.read()
Advance(g) ==
    IF g.queue = <<>> THEN [g EXCEPT !.pc = "read"]
    ELSE [g EXCEPT !.pc = "yield",
                   !.yielded = Append(@, Head(g.queue)),
                   !.queue = Tail(@)]

\* reader.read() resolved with a value: the text is appended to the buffer,
\* the complete lines are decoded, the last fragment is held back
OnReadValue(g, text) ==
    LET joined == g.buffer \o text
    IN  Advance([g EXCEPT !.buffer = HeldBack(joined),
                          !.queue = ElementsOf(CompleteLines(joined))])

\* reader.read() resolved with done: the loop ends, the closing element is
\* yielded
OnReadDone(g) ==
    [g EXCEPT !.pc = "closing", !.yielded = Append(@, DoneElement)]

OnReadError_Swallowed(g, err) ==
    [g EXCEPT !.pc = "closing", !.yielded = Append(@, DoneElement)]

\* reader.read() rejected: nothing catches the error, the finally block
\* runs and the error leaves the generator
OnReadError(g, err) ==
    releaseLock([g EXCEPT !.pc = "threw", !.error = err])

ReadErrors == {"network error", "AbortError"}

InitDrawStream ==
    /\ IdleInstance
    /\ StreamIdle /\ EncodeIdle /\ ControllerIdle
    /\ probeIn = NotRun
    /\ probeOut = NotRun
    /\ \E response \in ResponseStreams :
           reader = [kind |-> "open", response |-> response,
                     remaining |-> WireOf(response.lines, response.terminated),
                     reads |-> 0, dataReads |-> 0, ended |-> FALSE, failed |-> "no"]
    /\ generator = [kind |-> "started", pc |-> "read", buffer |-> <<>>,
                    queue |-> <<>>, yielded |-> <<>>, locked |-> TRUE,
                    error |-> "no"]

drawStreamFrame ==
    <<callVars, extractVars, chunkVars, streamVars, encodeVars, controllerVars,
      probeIn, probeOut>>

\* the pending reader.read() resolves with the next n pieces of the response
ReadValue(n) ==
    /\ generator.pc = "read"
    /\ reader.dataReads < MaxReads
    /\ n \in 1..Len(reader.remaining)
    /\ \/ reader.dataReads + 1 < MaxReads
       \/ n = Len(reader.remaining)
    /\ reader' = [reader EXCEPT !.remaining = SubSeq(@, n + 1, Len(@)),
                                !.reads = @ + 1, !.dataReads = @ + 1]
    /\ generator' = OnReadValue(generator, SubSeq(reader.remaining, 1, n))
    /\ UNCHANGED drawStreamFrame

\* the pending reader.read() resolves with done: the transport reports the
\* normal end of the stream
ReadDone ==
    /\ generator.pc = "read"
    /\ reader.remaining = <<>>
    /\ reader' = [reader EXCEPT !.reads = @ + 1, !.ended = TRUE]
    /\ generator' = OnReadDone(generator)
    /\ UNCHANGED drawStreamFrame

\* the pending reader.read() rejects: the connection dropped, or the abort
\* signal handed to fetch fired
ReadFails(err) ==
    /\ generator.pc = "read"
    /\ reader' = [reader EXCEPT !.reads = @ + 1, !.failed = err]
    /\ generator' = OnReadError(generator, err)
    /\ UNCHANGED drawStreamFrame

\* the consumer asks for the next element
ConsumerNext ==
    /\ generator.pc \in {"yield", "closing"}
    /\ generator' = IF generator.pc = "closing"
                    THEN releaseLock([generator EXCEPT !.pc = "completed"])
                    ELSE Advance(generator)
    /\ UNCHANGED <<reader, drawStreamFrame>>

\* the consumer stops iterating: the generator is resumed with a return at
\* the yield it is suspended at and the finally block runs
ConsumerReturn ==
    /\ generator.pc \in {"yield", "closing"}
    /\ generator' = releaseLock([generator EXCEPT !.pc = "returned"])
    /\ UNCHANGED <<reader, drawStreamFrame>>

NextDrawStream ==
    \/ \E n \in 1..Len(reader.remaining) : ReadValue(n)
    \/ ReadDone
    \/ \E err \in ReadErrors : ReadFails(err)
    \/ ConsumerNext
    \/ ConsumerReturn

SpecDrawStream == InitDrawStream /\ [][NextDrawStream]_vars

----------------------------------------------------------------------------
(* Properties of generateContentStream *)

Ended == {"completed", "threw", "returned"}

\* C24: a rejected read is raised to the consumer as it is; no element, and
\* no done element in particular, is yielded at or after the failure; the
\* closing done element is yielded only after the transport reported the
\* normal end of the stream
C24_ReadFailureRaised ==
    [][/\ reader'.failed # "no" =>
              /\ generator'.pc = "threw"
              /\ generator'.error = reader'.failed
              /\ generator'.yielded = generator.yielded
       /\ generator'.pc \in {"closing", "completed"} =>
              reader'.ended /\ reader'.failed = "no"]_vars

\* a read failed after an element was yielded and before the response was
\* read to its end
C24_Witness ==
    /\ generator.kind = "started"
    /\ generator.pc = "threw"
    /\ generator.error = "network error"
    /\ generator.yielded # <<>>
    /\ reader.remaining # <<>>

\* C25: however the sequence ends (normal end of the stream, failed read,
\* abort, consumer stopping early), the lock of the reader is released,
\* and only a generator that has not ended holds it and reads
C25_EndReleasesReader ==
    generator.kind = "started" =>
        /\ generator.pc \in Ended => ~generator.locked
        /\ generator.pc \notin Ended => generator.locked

\* the consumer stopped after the first element, with data left to read
C25_Witness ==
    /\ generator.kind = "started"
    /\ generator.pc = "returned"
    /\ Len(generator.yielded) = 1
    /\ reader.remaining # <<>>
    /\ ~generator.locked

IsPrefixOf(p, q) == Len(p) <= Len(q) /\ SubSeq(q, 1, Len(p)) = p

\* the lines of the response that end with a newline
TerminatedLines(response) ==
    IF response.terminated THEN response.lines
    ELSE SubSeq(response.lines, 1, Len(response.lines) - 1)

\* C26: whatever the reads the response is split into, the elements yielded
\* are those of its newline-terminated lines, in order and once each,
\* followed by the closing element
C26_SplitInvariant ==
    generator.kind = "started" =>
        LET expected == ElementsOf(TerminatedLines(reader.response)) \o <<DoneElement>>
        IN  /\ IsPrefixOf(generator.yielded, expected)
            /\ generator.pc \in {"closing", "completed"} =>
                   generator.yielded = expected

\* a read ended inside the JSON text of the second line, after the first
\* line was decoded; the fragment is held back
C26_Witness ==
    /\ generator.kind = "started"
    /\ generator.pc = "yield"
    /\ generator.yielded = <<TextElement("Hel")>>
    /\ generator.buffer = DataPrefix \o <<"{delta:">>
    /\ reader.remaining # <<>>

----------------------------------------------------------------------------
(* buildDisplayText on its own *)

MaxTextLen == 4        \* tokens of a text handed to buildDisplayText

DisplayTokens == {"a", NL, TICK, FENCE}

DisplayTexts == SeqsUpTo(DisplayTokens, MaxTextLen)

GeneratorIdle == reader = NotRun /\ generator = NotRun

InitDisplay ==
    /\ IdleInstance
    /\ StreamIdle /\ EncodeIdle /\ ControllerIdle /\ GeneratorIdle
    /\ probeIn \in {[kind |-> "text", text |-> text] : text \in DisplayTexts}
    /\ probeOut = NotRun

\* the display text of the text, and the display text of that
ApplyDisplay ==
    /\ probeOut = NotRun
    /\ probeOut' = [kind |-> "display",
                    once |-> buildDisplayText(probeIn.text),
                    twice |-> buildDisplayText(buildDisplayText(probeIn.text))]
    /\ UNCHANGED <<callVars, extractVars, chunkVars, streamVars, encodeVars,
                   controllerVars, reader, generator, probeIn>>

NextDisplay == ApplyDisplay

SpecDisplay == InitDisplay /\ [][NextDisplay]_vars

\* C27: buildDisplayText appends one closing fence, on a line of its own,
\* to a text with an odd number of fence markers and returns a text with an
\* even number unchanged; its result has an even number of markers, and
\* applying it again changes nothing
C27_DisplayBalanced ==
    probeOut.kind = "display" =>
        /\ FenceCount(probeIn.text) % 2 = 1 =>
               probeOut.once = probeIn.text \o <<NL, FENCE>>
        /\ FenceCount(probeIn.text) % 2 = 0 => probeOut.once = probeIn.text
        /\ FenceCount(probeOut.once) % 2 = 0
        /\ probeOut.twice = probeOut.once

\* a text whose odd marker is followed by a lone backtick got its closing
\* fence
C27_Witness ==
    /\ probeOut.kind = "display"
    /\ probeIn.text = <<"a", FENCE, TICK>>
    /\ probeOut.once = <<"a", FENCE, TICK, NL, FENCE>>

----------------------------------------------------------------------------
(* OpenAIDrawingService: reading a candidate/parts response *)

MaxCandidates == 2     \* candidates of a response
MaxParts == 2          \* parts of a candidate

\* one part of a candidate: a thought flag, an optional text and an
\* optional inline image
ResponsePart(thought, text, inlineData) ==
    [thought |-> thought, text |-> text, inlineData |-> inlineData]

DrawCandidate(content) == [content |-> content]
Content(parts) == [t |-> "object", parts |-> parts]

DrawingServiceResponse(candidates, usageMetadata, promptFeedback) ==
    [candidates |-> candidates, usageMetadata |-> usageMetadata,
     promptFeedback |-> promptFeedback]

Png == "image/png"

ResponseParts ==
    {ResponsePart(FALSE, Str(<<"ok">>), Undef),
     ResponsePart(FALSE, Undef, InlineData(Png, "AAA=")),
     ResponsePart(FALSE, Str(<<"cap">>), InlineData(Png, "BBB=")),
     ResponsePart(TRUE, Str(<<SP, "why">>), Undef),
     ResponsePart(TRUE, Str(<<SP>>), Undef),
     ResponsePart(TRUE, Undef, InlineData(Png, "TTT=")),
     ResponsePart(TRUE, Str(<<"how">>), InlineData(Png, "UUU="))}

CandidateSet ==
    {DrawCandidate(Undef)}
        \cup {DrawCandidate(Content(parts)) : parts \in SeqsUpTo(ResponseParts, MaxParts)}

DrawResponses ==
    {DrawingServiceResponse(Undef, Undef, Undef)}
        \cup {DrawingServiceResponse(Arr(cands), Undef, Undef) :
                 cands \in SeqsUpTo(CandidateSet, MaxCandidates)}

ThoughtTextItem(text) == [type |-> "text", text |-> text]
ThoughtImageItem(inlineData) ==
    [type |-> "image", mimeType |-> inlineData.mimeType, data |-> inlineData.data]

\* the entry extractImages pushes for a non-thought inline image; index is
\* the position of the candidate, counted from 0; the trace is the copy of
\* the thought items gathered so far
GeneratedImage(inlineData, index, now, segments, trace, usageMetadata) ==
    [id |-> <<now, "-", index>>,
     imageData |-> inlineData.data,
     mimeType |-> inlineData.mimeType,
     timestamp |-> now,
     thoughtSummary |-> IF Len(segments) > 0 THEN Str(Join(segments, <<NL, NL>>))
                        ELSE Undef,
     thoughtTrace |-> IF Len(trace) > 0 THEN Arr(trace) ELSE Undef,
     usageMetadata |-> usageMetadata]

\* the body of candidate.content.parts.forEach: what one part does to the
\* thought segments, the thought trace and the images
ScanPart(part, index, now, usageMetadata, acc) ==
    IF part.thought
    THEN IF Truthy(part.text)
         THEN LET cleaned == Trim(part.text.s)
              IN  IF cleaned # <<>>
                  THEN [acc EXCEPT !.thoughtSegments = Append(@, cleaned),
                                   !.thoughtTrace = Append(@, ThoughtTextItem(cleaned))]
                  ELSE acc
         ELSE IF Truthy(part.inlineData)
         THEN [acc EXCEPT !.thoughtTrace = Append(@, ThoughtImageItem(part.inlineData))]
         ELSE acc
    ELSE IF Truthy(part.inlineData)
    THEN [acc EXCEPT !.images =
              Append(@, GeneratedImage(part.inlineData, index, now,
                                       acc.thoughtSegments, acc.thoughtTrace,
                                       usageMetadata))]
    ELSE acc

RECURSIVE ScanParts(_, _, _, _, _)
ScanParts(parts, index, now, usageMetadata, acc) ==
    IF parts = <<>> THEN acc
    ELSE ScanParts(Tail(parts), index, now, usageMetadata,
                   ScanPart(Head(parts), index, now, usageMetadata, acc))

\* the images of one candidate: segments and trace start empty for each
CandidateImages(candidate, index, now, usageMetadata) ==
    IF Truthy(candidate.content)
    THEN ScanParts(candidate.content.parts, index, now, usageMetadata,
                   [thoughtSegments |-> <<>>, thoughtTrace |-> <<>>,
                    images |-> <<>>]).images
    ELSE <<>>

extractImages(response, now) ==
    IF ~Truthy(response.candidates) \/ Len(response.candidates.a) = 0
    THEN <<>>
    ELSE Flatten([i \in 1..Len(response.candidates.a) |->
                     CandidateImages(response.candidates.a[i], i - 1, now,
                                     response.usageMetadata)])

IsPrimaryText(part) == Truthy(part.text) /\ ~part.thought
PrimaryPartText(part) == part.text.s

extractText(response) ==
    IF ~Truthy(response.candidates) \/ Len(response.candidates.a) = 0
    THEN <<>>
    ELSE LET candidate == response.candidates.a[1]
         IN  IF ~Truthy(candidate.content) THEN <<>>
             ELSE Join(Map(SelectSeq(candidate.content.parts, IsPrimaryText),
                           PrimaryPartText), <<>>)

Clock == 7     \* the value Date.now() returns during the call

InitDrawResponse ==
    /\ IdleInstance
    /\ StreamIdle /\ EncodeIdle /\ ControllerIdle /\ GeneratorIdle
    /\ probeIn \in {[kind |-> "response", response |-> r] : r \in DrawResponses}
    /\ probeOut = NotRun

probeFrame ==
    <<callVars, extractVars, chunkVars, streamVars, encodeVars, controllerVars,
      reader, generator, probeIn>>

\* the caller reads the images and the primary text of the response
ApplyExtract ==
    /\ probeIn.kind = "response"
    /\ probeOut = NotRun
    /\ probeOut' = [kind |-> "extracted",
                    images |-> extractImages(probeIn.response, Clock),
                    text |-> extractText(probeIn.response)]
    /\ UNCHANGED probeFrame

NextDrawResponse == ApplyExtract

SpecDrawResponse == InitDrawResponse /\ [][NextDrawResponse]_vars

CandidatesOf(response) ==
    IF Truthy(response.candidates) THEN response.candidates.a ELSE <<>>
PartsOf(candidate) ==
    IF Truthy(candidate.content) THEN candidate.content.parts ELSE <<>>

IsThought(part) == part.thought
IsPrimaryImage(part) == ~part.thought /\ Truthy(part.inlineData)
ImagePayload(part) == [data |-> part.inlineData.data, mimeType |-> part.inlineData.mimeType]
EntryPayload(image) == [data |-> image.imageData, mimeType |-> image.mimeType]

\* the tokens of the texts of the thought parts of a response
ThoughtTokens(response) ==
    UNION {{part.text.s[j] : j \in 1..Len(part.text.s)} :
              part \in {p \in UNION {{PartsOf(c)[i] : i \in 1..Len(PartsOf(c))} :
                                        c \in {CandidatesOf(response)[k] :
                                                  k \in 1..Len(CandidatesOf(response))}} :
                           p.thought /\ Truthy(p.text)}}

\* the entries extractImages returned for the candidate at a position
ImagesOfCandidate(images, index) ==
    SelectSeq(images, LAMBDA image : image.id[3] = index)

TraceOf(image) == IF Truthy(image.thoughtTrace) THEN image.thoughtTrace.a ELSE <<>>

\* a thought part is in a trace: its text (surrounding whitespace aside;
\* a blank text has nothing to record) or its inline image is an item
ThoughtRecorded(part, trace) ==
    \/ ~Truthy(part.text) /\ ~Truthy(part.inlineData)
    \/ /\ Truthy(part.text)
       /\ \/ Trim(part.text.s) = <<>>
          \/ \E i \in 1..Len(trace) : trace[i] = ThoughtTextItem(Trim(part.text.s))
    \/ /\ Truthy(part.inlineData)
       /\ \E i \in 1..Len(trace) : trace[i] = ThoughtImageItem(part.inlineData)

\* C28: the primary text holds no text of a thought part; the images are
\* the non-thought inline images, one entry each, in order; and every
\* thought part of a candidate is in the thought-trace of each image
\* extracted from that candidate
C28_ThoughtsKeptApart ==
    probeOut.kind = "extracted" =>
        LET response == probeIn.response
            cands == CandidatesOf(response)
        IN  /\ \A j \in 1..Len(probeOut.text) :
                   probeOut.text[j] \notin ThoughtTokens(response)
            /\ Map(probeOut.images, EntryPayload)
                   = Flatten([k \in 1..Len(cands) |->
                                 Map(SelectSeq(PartsOf(cands[k]), IsPrimaryImage),
                                     ImagePayload)])
            /\ \A k \in 1..Len(cands) :
                   LET own == ImagesOfCandidate(probeOut.images, k - 1)
                   IN  \A n \in 1..Len(own) :
                           \A i \in 1..Len(PartsOf(cands[k])) :
                               PartsOf(cands[k])[i].thought =>
                                   ThoughtRecorded(PartsOf(cands[k])[i], TraceOf(own[n]))

\* the first two parts of C28 alone
C28_PrimaryOutputHasNoThought ==
    probeOut.kind = "extracted" =>
        LET response == probeIn.response
            cands == CandidatesOf(response)
        IN  /\ \A j \in 1..Len(probeOut.text) :
                   probeOut.text[j] \notin ThoughtTokens(response)
            /\ Map(probeOut.images, EntryPayload)
                   = Flatten([k \in 1..Len(cands) |->
                                 Map(SelectSeq(PartsOf(cands[k]), IsPrimaryImage),
                                     ImagePayload)])

----------------------------------------------------------------------------
(* OpenAIDrawingService.generateContent: the upstream answer normalised *)

MaxItems == 2          \* items of an array-valued message content

\* OpenAIResponse and the pieces of it normalizeResponse reads
DrawChoice(content, finishReason, index) ==
    [t |-> "object", message |-> [t |-> "object", content |-> content],
     finish_reason |-> finishReason, index |-> index]
DrawBody(choices, images, usage) ==
    [t |-> "object", choices |-> choices, data |-> images, usage |-> usage]
TextItem(text) == [type |-> "text", text |-> text, image_url |-> Undef, image_base64 |-> Undef]
ImageUrlItem(type, url) ==
    [type |-> type, text |-> Undef, image_url |-> [t |-> "object", url |-> url],
     image_base64 |-> Undef]
ImageBase64Item(base64) ==
    [type |-> "image", text |-> Undef, image_url |-> Undef, image_base64 |-> base64]
DataItem(b64, prompt, mime) == [b64_json |-> b64, revised_prompt |-> prompt, mime_type |-> mime]

Jpeg == "image/jpeg"
LongBase64 == "<64 base64 characters>"   \* a text looksLikeBase64 accepts
DataUrl(mimeType, base64) == <<"data:", mimeType, ";base64,", base64>>
HttpUrl == <<"http", "://img/a.png">>

ContentFilter == Str(<<"content_filter">>)

looksLikeBase64(text) == text = <<LongBase64>>

IsImageMime(mimeType) == mimeType \in {Png, Jpeg}

\* what fetch(url) of an image link gives: a rejection, a non-success
\* status, or a body with or without a content-type header
FetchOutcomes ==
    {[kind |-> "rejects"], [kind |-> "not ok"],
     [kind |-> "ok", contentType |-> Jpeg, base64 |-> "FFF="],
     [kind |-> "ok", contentType |-> "", base64 |-> "FFF="]}

FirstNonEmpty(a, b, c) == IF a # "" THEN a ELSE IF b # "" THEN b ELSE c

\* the inline data of an image reference, Null when it is none
parseImageUrl(url, fallbackMimeType, fetched) ==
    IF url = <<>> THEN Null
    ELSE IF Head(url) = "data:"
    THEN IF \E k \in 2..Len(url) : url[k] = ";base64,"
         THEN LET k == CHOOSE k \in 2..Len(url) :
                           /\ url[k] = ";base64,"
                           /\ \A j \in 2..(k - 1) : url[j] # ";base64,"
              IN  IF k <= 3 /\ Len(url) <= k + 1
                  THEN InlineData(IF k = 3 THEN url[2] ELSE "",
                                  IF Len(url) = k + 1 THEN url[k + 1] ELSE "")
                  ELSE InlineData(SubSeq(url, 2, k - 1), SubSeq(url, k + 1, Len(url)))
         ELSE Null
    ELSE IF Head(url) = "http"
    THEN IF fetched.kind = "ok"
         THEN InlineData(FirstNonEmpty(fetched.contentType, fallbackMimeType, Png),
                         fetched.base64)
         ELSE Null
    ELSE IF looksLikeBase64(url)
    THEN InlineData(IF IsImageMime(fallbackMimeType) THEN fallbackMimeType ELSE Png,
                    url[1])
    ELSE Null

\* the parts one item of an array-valued content contributes
ItemParts(item, mimeType, fetched) ==
    IF item.type = "text" /\ Truthy(item.text)
    THEN <<ResponsePart(FALSE, item.text, Undef)>>
    ELSE IF item.type \in {"image_url", "image"} /\ Truthy(item.image_url)
                /\ Truthy(item.image_url.url)
    THEN LET inlineData == parseImageUrl(item.image_url.url.s, mimeType, fetched)
         IN  IF Truthy(inlineData) THEN <<ResponsePart(FALSE, Undef, inlineData)>>
             ELSE <<>>
    ELSE IF item.type = "image" /\ Truthy(item.image_base64)
    THEN <<ResponsePart(FALSE, Undef,
               InlineData(IF IsImageMime(mimeType) THEN mimeType ELSE Png,
                          item.image_base64.s[1]))>>
    ELSE <<>>

ContentParts(content, mimeType, fetched) ==
    IF IsArr(content)
    THEN Flatten([i \in 1..Len(content.a) |-> ItemParts(content.a[i], mimeType, fetched)])
    ELSE IF IsStr(content)
    THEN LET inlineData == parseImageUrl(content.s, mimeType, fetched)
         IN  IF Truthy(inlineData) THEN <<ResponsePart(FALSE, Undef, inlineData)>>
             ELSE IF Trim(content.s) # <<>> THEN <<ResponsePart(FALSE, content, Undef)>>
             ELSE <<>>
    ELSE <<>>

\* the parts one entry of response.data contributes
DataParts(item, mimeType) ==
    (IF Truthy(item.b64_json)
     THEN <<ResponsePart(FALSE, Undef,
                InlineData(FirstNonEmpty(item.mime_type, mimeType, Png),
                           item.b64_json.s[1]))>>
     ELSE <<>>)
    \o (IF Truthy(item.revised_prompt)
        THEN <<ResponsePart(FALSE, item.revised_prompt, Undef)>>
        ELSE <<>>)

FirstChoice(body) ==
    IF Truthy(body.choices) /\ Len(body.choices.a) > 0 THEN body.choices.a[1] ELSE Undef

blockReason_Never(choice) == Undef

blockReason(choice) ==
    IF Truthy(choice) /\ choice.finish_reason = ContentFilter
    THEN ContentFilter ELSE Undef

normalizeResponse(body, mimeType, fetched) ==
    LET choice == FirstChoice(body)
        content == IF Truthy(choice) /\ Truthy(choice.message)
                   THEN choice.message.content ELSE Undef
        parts == ContentParts(content, mimeType, fetched)
                     \o (IF Truthy(body.data)
                         THEN Flatten([i \in 1..Len(body.data.a) |->
                                          DataParts(body.data.a[i], mimeType)])
                         ELSE <<>>)
        reason == blockReason(choice)
    IN  [candidates |->
             Arr(<<[content |-> Content(parts),
                    finishReason |-> IF Truthy(choice) THEN choice.finish_reason
                                     ELSE Undef,
                    index |-> IF Truthy(choice) /\ choice.index.t = "number"
                              THEN choice.index ELSE Num(0)]>>),
         usageMetadata |-> IF Truthy(body.usage)
                           THEN [t |-> "object",
                                 promptTokenCount |-> body.usage.prompt_tokens,
                                 candidatesTokenCount |-> body.usage.completion_tokens,
                                 totalTokenCount |-> body.usage.total_tokens]
                           ELSE Undef,
         promptFeedback |-> IF Truthy(reason)
                            THEN [t |-> "object", blockReason |-> reason]
                            ELSE Undef]

isBlocked(response) ==
    /\ Truthy(response.promptFeedback)
    /\ response.promptFeedback.blockReason = ContentFilter

BlockedLabel == "blocked: "    \* the label getBlockReason puts before the reason

getBlockReason(response) ==
    IF ~Truthy(response.promptFeedback) \/ ~Truthy(response.promptFeedback.blockReason)
    THEN <<>>
    ELSE <<BlockedLabel>> \o response.promptFeedback.blockReason.s

Returned(value) == [kind |-> "returned", value |-> value]
Threw(name, status, detail) ==
    [kind |-> "threw", name |-> name, status |-> status, detail |-> detail]

\* generateContent after the request was sent: the body is read as JSON
\* (an unreadable body counts as an empty object), a non-success status is
\* thrown, anything else is normalised
generateContent(http, mimeType, fetched) ==
    LET body == IF http.body.t = "unparsable" THEN DrawBody(Undef, Undef, Undef)
                ELSE http.body
    IN  IF ~http.ok THEN Threw("Error", http.status, body)
        ELSE IF body.t = "null" THEN Threw("TypeError", http.status, body)
        ELSE Returned(normalizeResponse(body, mimeType, fetched))

ItemSet ==
    {TextItem(Str(<<"sorry">>)),
     ImageUrlItem("image_url", Str(DataUrl(Jpeg, "AAA="))),
     ImageUrlItem("image", Str(HttpUrl)),
     ImageBase64Item(Str(<<"BBB=">>))}

ContentSet ==
    {Undef, Null, Str(<<"sorry">>), Str(<<SP>>), Str(DataUrl(Png, "AAA=")),
     Str(<<"data:", "text">>), Str(HttpUrl), Str(<<LongBase64>>)}
        \cup {Arr(items) : items \in SeqsUpTo(ItemSet, MaxItems)}

FinishReasons == {Undef, Str(<<"stop">>), ContentFilter}

ChoiceLists ==
    {Undef, Arr(<<>>)}
        \cup {Arr(<<DrawChoice(content, reason, Num(0))>>) :
                 content \in ContentSet, reason \in FinishReasons}
        \cup {Arr(<<DrawChoice(Str(<<"sorry">>), reason, Undef),
                    DrawChoice(Undef, ContentFilter, Num(1))>>) :
                 reason \in FinishReasons}

DataLists ==
    {Undef, Arr(<<DataItem(Str(<<"CCC=">>), Str(<<"a", SP, "cat">>), "")>>)}

UsageSet == {Undef, [t |-> "object", prompt_tokens |-> 1, completion_tokens |-> 2,
                     total_tokens |-> 3]}

HttpBodies ==
    {[t |-> "unparsable"], Null}
        \cup {DrawBody(choices, images, usage) :
                 choices \in ChoiceLists, images \in DataLists, usage \in UsageSet}

HttpResponses ==
    {[ok |-> TRUE, status |-> 200, body |-> body] : body \in HttpBodies}
        \cup {[ok |-> FALSE, status |-> 400, body |-> body] :
                 body \in {[t |-> "unparsable"],
                           DrawBody(Arr(<<DrawChoice(Undef, ContentFilter, Num(0))>>),
                                    Undef, Undef)}}

MimeTypes == {Png, "text/plain"}

InitGenerate ==
    /\ IdleInstance
    /\ StreamIdle /\ EncodeIdle /\ ControllerIdle /\ GeneratorIdle
    /\ probeIn \in {[kind |-> "http", http |-> http, mimeType |-> mimeType,
                     fetched |-> fetched] :
                       http \in HttpResponses, mimeType \in MimeTypes,
                       fetched \in FetchOutcomes}
    /\ probeOut = NotRun

\* the answer arrives; the caller asks the service whether it was blocked
Generate ==
    /\ probeIn.kind = "http"
    /\ probeOut = NotRun
    /\ LET outcome == generateContent(probeIn.http, probeIn.mimeType, probeIn.fetched)
       IN  probeOut' = [kind |-> "generated",
                        outcome |-> outcome,
                        blocked |-> IF outcome.kind = "returned"
                                    THEN isBlocked(outcome.value) ELSE FALSE,
                        reason |-> IF outcome.kind = "returned"
                                   THEN getBlockReason(outcome.value) ELSE <<>>]
    /\ UNCHANGED probeFrame

NextGenerate == Generate

SpecGenerate == InitGenerate /\ [][NextGenerate]_vars

\* the upstream answered with a success status and its first choice was
\* stopped by the content filter
FilteredSuccess(http) ==
    /\ http.ok
    /\ http.body.t = "object"
    /\ Truthy(http.body.choices)
    /\ Len(http.body.choices.a) > 0
    /\ http.body.choices.a[1].finish_reason = ContentFilter

\* C29: a success answer whose first choice has finish reason
\* content_filter is returned, not thrown, with promptFeedback.blockReason
\* set, isBlocked true and a non-empty getBlockReason; every other success
\* answer that is returned has isBlocked false and an empty getBlockReason
C29_BlockedIsReturned ==
    probeOut.kind = "generated" /\ probeIn.http.ok =>
        IF FilteredSuccess(probeIn.http)
        THEN /\ probeOut.outcome.kind = "returned"
             /\ Truthy(probeOut.outcome.value.promptFeedback)
             /\ Truthy(probeOut.outcome.value.promptFeedback.blockReason)
             /\ probeOut.blocked
             /\ probeOut.reason # <<>>
        ELSE probeOut.outcome.kind = "returned" =>
                 /\ ~probeOut.blocked
                 /\ probeOut.reason = <<>>

\* a filtered answer that still carried an image was returned, not thrown,
\* and reads as blocked
C29_Witness ==
    /\ probeOut.kind = "generated"
    /\ FilteredSuccess(probeIn.http)
    /\ probeOut.outcome.kind = "returned"
    /\ probeOut.blocked
    /\ Len(extractImages(probeOut.outcome.value, Clock)) = 1

----------------------------------------------------------------------------
(* OpenAIResponsesProvider.callAPI: one request, no recovery, no state *)

\* C30: a call of OpenAIResponsesProvider.callAPI sends at most one request
\* and is settled by the first answer; an answer with a non-success status,
\* the parameter and system-role rejections included, is thrown at once with
\* its status and parsed body; and no step of a call changes a field of the
\* adapter
C30_OneRequestNoState ==
    [][adapter = "OpenAIResponsesProvider" =>
          /\ UNCHANGED <<config, adapter, modelId, maxTokensParamName, everCorrected>>
          /\ \A c \in Slots :
                 LET call == calls'[c]
                 IN  /\ Len(call.requests) <= 1
                     /\ call.pc = "awaiting" =>
                            Len(call.requests) = 1 /\ call.responses = <<>>
                     /\ call.responses # <<>> =>
                            /\ Len(call.requests) = 1
                            /\ Len(call.responses) = 1
                            /\ call.pc \in {"thrown", "returned"}
                            /\ call.nParamFix = 0 /\ call.nMerge = 0
                     /\ (call.responses # <<>> /\ call.responses[1].kind = "http"
                             /\ ~call.responses[1].ok) =>
                            /\ call.pc = "thrown"
                            /\ call.result = [kind |-> "UpstreamError",
                                              status |-> call.responses[1].status,
                                              error |-> ParsedErrorBody(call.responses[1])]]_vars

\* a parameter rejection of a request that carried a system message was
\* thrown after the one request, the adapter as it was constructed
C30_Witness ==
    /\ adapter = "OpenAIResponsesProvider"
    /\ calls[1].pc = "thrown"
    /\ Len(calls[1].requests) = 1
    /\ Len(calls[1].responses) = 1
    /\ ParamRejection(calls[1].responses[1])
    /\ HasSystem(calls[1].messages)
    /\ calls[1].result.kind = "UpstreamError"
    /\ calls[1].result.status = 400
    /\ maxTokensParamName = "max_tokens"

----------------------------------------------------------------------------
(* OpenAIProvider: construction *)

MaxModels == 2         \* entries of config.models

\* an entry of config.models; maxTokens is "" when the entry configures no
\* parameter name, capabilities is absent when hasCapabilities is FALSE
ModelConfig(id, hasCapabilities, maxTokens) ==
    [id |-> id, hasCapabilities |-> hasCapabilities, maxTokens |-> maxTokens]

\* config.models?.find(model => model.id === modelId), Undef when none
FindModelConfig(models, id) ==
    IF ~Truthy(models) THEN Undef
    ELSE IF \E i \in 1..Len(models.a) : models.a[i].id = id
    THEN LET first == CHOOSE i \in 1..Len(models.a) :
                          /\ models.a[i].id = id
                          /\ \A j \in 1..(i - 1) : models.a[j].id # id
         IN  [t |-> "object", entry |-> models.a[first]]
    ELSE Undef

\* modelConfig?.capabilities?.supportedParams.maxTokens, "" when absent
ConfiguredParam(modelConfig) ==
    IF Truthy(modelConfig) /\ modelConfig.entry.hasCapabilities
    THEN modelConfig.entry.maxTokens ELSE ""

\* the value the constructor stores in this.maxTokensParamName
Constructed(models, id) ==
    resolveInitialMaxTokensParam(ConfiguredParam(FindModelConfig(models, id)), id)

ConstructIds ==
    {<<"gpt-4o">>, <<"GPT-5">>, <<"gpt-5-high">>, <<"o1-mini">>, <<"O3">>,
     <<"o4-mini">>, <<"deep", "-", "reasoning">>, <<"claude">>}

\* the ids of ConstructIds whose lower-cased text holds one of gpt-5, o1,
\* o3, o4, reasoning
KeywordIds ==
    {<<"GPT-5">>, <<"gpt-5-high">>, <<"o1-mini">>, <<"O3">>, <<"o4-mini">>,
     <<"deep", "-", "reasoning">>}

ConfiguredIds == {<<"gpt-4o">>, <<"o1-mini">>, <<"gpt-5">>}

ModelConfigs ==
    {ModelConfig(id, FALSE, "") : id \in ConfiguredIds}
        \cup {ModelConfig(id, TRUE, name) :
                 id \in ConfiguredIds, name \in {"", "max_tokens", "max_completion_tokens"}}

ModelLists == {Undef} \cup {Arr(list) : list \in SeqsUpTo(ModelConfigs, MaxModels)}

InitConstruct ==
    /\ IdleInstance
    /\ StreamIdle /\ EncodeIdle /\ ControllerIdle /\ GeneratorIdle
    /\ probeIn \in {[kind |-> "new", models |-> models, id |-> id] :
                       models \in ModelLists, id \in ConstructIds}
    /\ probeOut = NotRun

\* new OpenAIProvider(config, modelId)
Construct ==
    /\ probeIn.kind = "new"
    /\ probeOut = NotRun
    /\ probeOut' = [kind |-> "constructed",
                    maxTokensParamName |-> Constructed(probeIn.models, probeIn.id)]
    /\ UNCHANGED probeFrame

NextConstruct == Construct

SpecConstruct == InitConstruct /\ [][NextConstruct]_vars

\* the parameter names the entries of the list configure for the id
ConfiguredFor(models, id) ==
    IF ~Truthy(models) THEN {}
    ELSE {models.a[i].maxTokens :
             i \in {j \in 1..Len(models.a) :
                        /\ models.a[j].id = id
                        /\ models.a[j].hasCapabilities
                        /\ models.a[j].maxTokens # ""
                        /\ \A k \in 1..(j - 1) : models.a[k].id # id}}

\* C31: the name a new OpenAIProvider starts with is the one configured
\* for its model when there is one, whatever the model id; otherwise it is
\* max_completion_tokens exactly when the lower-cased id holds one of
\* gpt-5, o1, o3, o4, reasoning, and max_tokens in every other case
C31_InitialParamName ==
    probeOut.kind = "constructed" =>
        LET configured == ConfiguredFor(probeIn.models, probeIn.id)
        IN  IF configured # {}
            THEN probeOut.maxTokensParamName \in configured
            ELSE probeOut.maxTokensParamName =
                     IF probeIn.id \in KeywordIds THEN "max_completion_tokens"
                     ELSE "max_tokens"

\* a model whose id holds a keyword was configured with max_tokens and
\* starts with max_tokens
C31_Witness ==
    /\ probeOut.kind = "constructed"
    /\ probeIn.id = <<"o1-mini">>
    /\ ConfiguredFor(probeIn.models, probeIn.id) = {"max_tokens"}
    /\ probeOut.maxTokensParamName = "max_tokens"

----------------------------------------------------------------------------
(* OpenAIProvider.callAPI: what a retry sends *)

\* C32: the body of every retried attempt of OpenAIProvider.callAPI differs
\* from the body of the attempt whose rejection triggered it
C32_RetryChangesBody ==
    adapter = "OpenAIProvider" =>
        \A c \in Slots :
            \A i \in 2..Len(calls[c].requests) :
                calls[c].requests[i].body # calls[c].requests[i - 1].body

----------------------------------------------------------------------------
(* Conversation controller: the artifact shown in the preview *)

\* call k took a chunk in this step
TookChunk(k) ==
    /\ k \in 1..Len(sends)
    /\ Len(sends') = Len(sends)
    /\ sends'[k].delivered = sends[k].delivered + 1

\* C33: at every chunk the artifact is extracted from the full accumulated
\* text of the call; one that is found replaces currentArtifact, none found
\* leaves it as it was; and currentArtifact goes back to null only by clear
\* or prefill
C33_ArtifactFollowsChunks ==
    [][/\ \A k \in 1..Len(sends) :
              TookChunk(k) =>
                  LET artifact == extractArtifact(sends'[k].accumulated)
                  IN  currentArtifact' = IF artifact # Null THEN artifact
                                         ELSE currentArtifact
       /\ (currentArtifact # Null /\ currentArtifact' = Null) =>
              \/ conversation' = <<>>
              \/ lastPrefillTimestamp' # lastPrefillTimestamp]_vars

----------------------------------------------------------------------------
(* OpenAIProvider.callAPI: a rejection that matches both corrections *)

\* the answer call c received in this step, NotRun when it received none
Received(c) ==
    IF calls[c].pc = "awaiting"
       /\ Len(calls'[c].responses) = Len(calls[c].responses) + 1
    THEN calls'[c].responses[Len(calls'[c].responses)]
    ELSE NotRun

\* the rejection matches the parameter signature and the system-role
\* signature (the instructions signature in Responses mode)
MatchesBoth(resp) ==
    /\ resp.kind = "http"
    /\ ParamRejection(resp)
    /\ IF useResponsesApi THEN InstructionsRejection(resp)
       ELSE SystemRoleRejection(resp)

\* C34: when a rejection matches both signatures while the call still uses
\* max_tokens, the retry it triggers is the parameter correction, sent with
\* the messages as they were; no merge happens on that rejection
C34_ParameterFirst ==
    [][adapter = "OpenAIProvider" =>
          \A c \in Slots :
              (/\ MatchesBoth(Received(c))
               /\ calls[c].currentMaxTokensParam = "max_tokens") =>
                  LET call == calls[c]
                      next == calls'[c]
                      n == Len(next.requests)
                  IN  /\ next.pc = "awaiting"
                      /\ n = Len(call.requests) + 1
                      /\ next.decisions[Len(next.decisions)] = "paramfix"
                      /\ next.currentMaxTokensParam = "max_completion_tokens"
                      /\ next.requestMessages = call.requestMessages
                      /\ next.nMerge = call.nMerge
                      /\ next.requests[n].body.messages
                             = call.requests[n - 1].body.messages]_vars

\* a rejection matching both signatures was answered by the parameter
\* correction, and the merge fired on the rejection after it
C34_Witness ==
    \E c \in Slots :
        /\ adapter = "OpenAIProvider"
        /\ HasSystem(calls[c].messages)
        /\ Len(calls[c].responses) >= 2
        /\ MatchesBoth(calls[c].responses[1])
        /\ calls[c].decisions[1] = "paramfix"
        /\ calls[c].decisions[2] = "merge"
        /\ Len(calls[c].requests) = 3

----------------------------------------------------------------------------
(* A Responses stream, decoded frame by frame by OpenAIProvider *)

\* data: {"type":"response.output_text.delta","delta": d}
OutputTextDelta(delta) ==
    Frame(<<JSONDOC>>, Obj(T("response.output_text.delta"), delta, Undef, Undef, Undef, Undef))

\* data: {"type":"response.output_text.done","text": full}
OutputTextDone(full) ==
    Frame(<<JSONDOC>>, Obj(T("response.output_text.done"), Undef, full, Undef, Undef, Undef))

\* data: {"type":"response.completed"}
ResponseCompleted ==
    Frame(<<JSONDOC>>, Obj(T("response.completed"), Undef, Undef, Undef, Undef, Undef))

StrText(v) == v.s

\* deltas d1..dn, the done event with d1 ++ ... ++ dn, the completion
ResponsesStreamOf(deltas) ==
    Map(deltas, OutputTextDelta)
        \o <<OutputTextDone(Str(Flatten(Map(deltas, StrText)))), ResponseCompleted>>

ResponsesStreams ==
    {ResponsesStreamOf(ds) : ds \in SeqsUpTo(DeltaContents, MaxStreamFrames)}

InitResponsesStream ==
    /\ IdleInstance
    /\ pending \in ResponsesStreams
    /\ chunks = <<>>
    /\ accumulated = <<>>
    /\ EncodeIdle /\ ControllerIdle /\ DrawIdle

NextResponsesStream == ReadFrame

SpecResponsesStream == InitResponsesStream /\ [][NextResponsesStream]_vars

\* the contents of the chunks decoded so far, one after another
YieldedText ==
    Flatten([i \in 1..Len(chunks) |->
                IF chunks[i].out.kind = "chunk" THEN chunks[i].out.content ELSE <<>>])

IsDoneEvent(entry) ==
    entry.frame.json.t = "object" /\ entry.frame.json.type = T("response.output_text.done")

\* C35: once a Responses stream of output_text.delta events, the
\* output_text.done event with the full text and response.completed has
\* been decoded, the contents of the decoded chunks concatenate to the full
\* text, once
C35_FullTextOnce ==
    pending = <<>> =>
        \A i \in 1..Len(chunks) :
            IsDoneEvent(chunks[i]) => YieldedText = chunks[i].frame.json.text.s

----------------------------------------------------------------------------
(* generateContentStream: the done element *)

DonePositions(elements) == {i \in 1..Len(elements) : elements[i] = DoneElement}

\* C36: a sequence of generateContentStream that ended normally holds one
\* done element, and it is the last element
C36_OneDoneLast ==
    (generator.kind = "started" /\ generator.pc = "completed") =>
        DonePositions(generator.yielded) = {Len(generator.yielded)}

----------------------------------------------------------------------------
(* Conversation controller: where the writes of a call land *)

\* call k ran its onChunk closure or the code after its await in this step
Wrote(k) ==
    /\ k \in 1..Len(sends)
    /\ InFlight(k)
    /\ sends'[k] # sends[k]

\* positions of the list whose message differs after the step
ChangedPositions ==
    {i \in 1..Len(conversation) :
        i > Len(conversation') \/ conversation'[i] # conversation[i]}

\* C37: every chunk write and the completion or error write of a call
\* changes only the assistant message created (send, resend) or targeted
\* (regenerate) for that call, whatever deleteMessage, handleClear, prefill
\* and later sends did while the call was in flight: no write lands on
\* another message, and none addresses a position that is gone
C37_WritesOwnMessage ==
    [][\A k \in 1..Len(sends) :
           Wrote(k) =>
               /\ sends'[k].status # "threw"
               /\ Len(conversation') = Len(conversation)
               /\ \A i \in ChangedPositions :
                      conversation[i].id = sends[k].target]_vars

----------------------------------------------------------------------------
(* Conversation controller: the isStreaming flag over the life of a call *)

\* the call k leaves its await in this step: the code after the await, the
\* catch block and the finally block have run
Settles(k) ==
    /\ k \in 1..Len(sends)
    /\ InFlight(k)
    /\ sends'[k].status # "in flight"

\* the assistant message of the call, where the list still holds it after
\* the step, is no longer marked as streaming
OwnMessageAtRest(k) ==
    \A i \in 1..Len(conversation') :
        conversation'[i].id = sends[k].target =>
            conversation'[i].isStreaming = Bool(FALSE)

\* C38: while a call is in flight the controller's isStreaming is true,
\* whatever clear, delete and prefill events occur; and the step in which
\* the call resolves or rejects leaves isStreaming false and the call's
\* assistant message with isStreaming false
C38_StreamingFlagFollowsCall ==
    [][/\ \A k \in 1..Len(sends') :
              sends'[k].status = "in flight" => isStreaming'
       /\ \A k \in 1..Len(sends) :
              Settles(k) => (~isStreaming' /\ OwnMessageAtRest(k))]_vars

----------------------------------------------------------------------------
(* Conversation controller: refused operations.  A handler that returns
   before its first assignment takes no step; handleResendAfterEdit is the
   one handler that assigns before a later check can refuse. *)

\* target.editingText when the resend event of the edit box arrives
EditTexts == {<<"draw", SP>>, <<SP>>}

\* saveEditMessage on the message at position idx, the message being edited
\* and the trimmed text non-empty
saveEditMessage(conv, idx, editingText) ==
    [conv EXCEPT ![idx].text = Trim(editingText),
                 ![idx].displayText = Undef]

\* handleResendAfterEdit: saveEditMessage, then handleResendUserMessage up to
\* the await of aiService.send
handleResendAfterEdit(messageId, editingText, settings, useStream) ==
    /\ component = "DrawingProvidersTab"
    /\ Len(sends) < MaxSends
    /\ LET targetIndex == IndexOfId(conversation, messageId)
       IN  /\ targetIndex # 0
           /\ Trim(editingText) # <<>>
           /\ LET saved == saveEditMessage(conversation, targetIndex, editingText)
                  n == Len(sends) + 1
                  truncated == SubSeq(saved, 1, targetIndex)
                  history == buildConversationMessages(truncated)
                  withAi == Append(truncated, AiPlaceholder(n))
              IN  IF /\ saved[targetIndex].role = "user"
                     /\ ~isStreaming
                     /\ ensureProvider(settings)
                  THEN /\ conversation' = withAi
                       /\ isStreaming' = TRUE
                       /\ sends' = Append(sends,
                                          Call("handleResendUserMessage", history,
                                               useStream, Len(withAi) - 1,
                                               AiPlaceholder(n).id))
                  ELSE /\ conversation' = saved
                       /\ UNCHANGED <<isStreaming, sends>>
    /\ UNCHANGED <<component, currentArtifact, lastPrefillTimestamp, otherVars>>

NextEdit ==
    \/ NextController
    \/ \E messageId \in MessageIds, editingText \in EditTexts,
          settings \in ProviderSettings, useStream \in BOOLEAN :
           handleResendAfterEdit(messageId, editingText, settings, useStream)

SpecEdit == InitController /\ [][NextEdit]_vars

\* the step issues no call, delivers nothing to a call, removes no message
\* and is not a prefill: what is left of a send, regenerate, resend or
\* resend-after-edit event that the controller refused
RefusedStep ==
    /\ sends' = sends
    /\ Len(conversation') = Len(conversation)
    /\ lastPrefillTimestamp' = lastPrefillTimestamp

\* C39: a refused operation (empty text, a call in flight, no configured
\* provider, no preceding message, an empty edit) leaves the message list
\* as it was: nothing appended, nothing truncated, no text changed
C39_RefusalChangesNothing ==
    [][RefusedStep => conversation' = conversation]_vars

----------------------------------------------------------------------------
(* extractImages: the ids of the images of one call *)

\* C40: the images returned by one call of extractImages have pairwise
\* distinct ids, for every response, a candidate with several inline-image
\* parts included, and for the value the clock returns during the call
C40_ImageIdsDistinct ==
    probeOut.kind = "extracted" =>
        \A i, j \in 1..Len(probeOut.images) :
            i # j => probeOut.images[i].id # probeOut.images[j].id

====
